---- MODULE Spec2Model ----
(***************************************************************************)
(* Verification model of the agm-trader strategy engine and backtest       *)
(* simulators.                                                             *)
(*                                                                         *)
(* Numbers.  The program computes with Python floats.  Here every price    *)
(* and indicator value is an integer number of thousandths (1.0 = 1000),   *)
(* and a product with a decimal factor (0.02, 0.382, 1.002, ...) is the    *)
(* exact product floored to a thousandth.  Python's None is NoneVal.       *)
(***************************************************************************)
EXTENDS Integers, Sequences, FiniteSets, TLC

\* ------------------------------------------------------------------------
\* Fixed-point helpers
\* ------------------------------------------------------------------------
Scale == 10 * 10 * 10

NoneVal == 0 - 999999

\* x * (m / 1000) for a decimal factor m given in thousandths
Mul(x, m) == (x * m) \div Scale

Abs(x) == IF x < 0 THEN 0 - x ELSE x

Min2(a, b) == IF a <= b THEN a ELSE b

Max2(a, b) == IF a >= b THEN a ELSE b

RECURSIVE SumSeq(_)
SumSeq(s) == IF s = << >> THEN 0 ELSE Head(s) + SumSeq(Tail(s))

\* Python slice data[:k]
Prefix(s, k) == SubSeq(s, 1, Min2(k, Len(s)))

IsPrefixOf(s, t) == Len(s) <= Len(t) /\ s = SubSeq(t, 1, Len(s))

\* ------------------------------------------------------------------------
\* Bars
\* ------------------------------------------------------------------------
\* A bar is [open, high, low, close, day]; day counts calendar days from a
\* Monday, so that weekday() = day % 7 (Friday = 4) and the ISO week is
\* day \div 7.
P(n) == n * Scale

Bar(o, h, l, c, d) == [open |-> P(o), high |-> P(h), low |-> P(l), close |-> P(c), day |-> d]

\* ========================================================================
\* components/strategy/ichimoku_base.py
\* ========================================================================
IBStep == 20
IBMaxStep == 200

\* one pass of the loop body of _calculate_psar for bar i (1-based index
\* i >= 2); c = [sar, ep, af, up]
IBPsarBar(c, data, i) ==
    LET sar1 == c.sar + Mul(c.ep - c.sar, c.af)
        sar2 == IF c.up
                  THEN IF i >= 3 THEN Min2(Min2(sar1, data[i-1].low), data[i-2].low)
                                 ELSE Min2(sar1, data[i-1].low)
                  ELSE IF i >= 3 THEN Max2(Max2(sar1, data[i-1].high), data[i-2].high)
                                 ELSE Max2(sar1, data[i-1].high)
        rev  == IF c.up THEN data[i].low < sar2 ELSE data[i].high > sar2
        up3  == IF rev THEN ~c.up ELSE c.up
        sar3 == IF rev THEN c.ep ELSE sar2
        ep3  == IF rev THEN (IF c.up THEN data[i].low ELSE data[i].high) ELSE c.ep
        af3  == IF rev THEN IBStep ELSE c.af
        newx == IF up3 THEN data[i].high > ep3 ELSE data[i].low < ep3
        ep4  == IF newx THEN (IF up3 THEN data[i].high ELSE data[i].low) ELSE ep3
        af4  == IF newx THEN Min2(af3 + IBStep, IBMaxStep) ELSE af3
    IN  [sar |-> sar3, ep |-> ep4, af |-> af4, up |-> up3, reversed |-> rev]

IBPsarInit(data) ==
    LET up == IF Len(data) >= 2 THEN data[2].high >= data[1].high ELSE TRUE
    IN  [sar |-> IF up THEN data[1].low ELSE data[1].high,
         ep  |-> IF up THEN data[1].high ELSE data[1].low,
         af  |-> IBStep, up |-> up, reversed |-> FALSE]

RECURSIVE IBPsarLoop(_, _, _, _)
IBPsarLoop(c, data, i, acc) ==
    IF i > Len(data) THEN acc
    ELSE LET n == IBPsarBar(c, data, i)
         IN  IBPsarLoop(n, data, i + 1, Append(acc, n))

\* the sequence of loop states, one per bar; element i has psar[i] in .sar,
\* the direction tracked after bar i in .up and whether bar i reversed
IBPsarTrace(data) == IBPsarLoop(IBPsarInit(data), data, 2, << IBPsarInit(data) >>)

\* _calculate_psar(high, low): the PSAR series (data non-empty)
IBCalculatePsar(data) == [i \in 1..Len(data) |-> IBPsarTrace(data)[i].sar]

\* ------------------------------------------------------------------------
\* Decisions are strings such as 'ADD_LONG_12'; a decision is kept as the
\* sequence of its '_'-separated parts, a quantity being a digit string.
\* ------------------------------------------------------------------------
\* f'{qty}' for the quantities the strategies format
FormatInt(q) == CASE q = 2 -> "2" [] q = 3 -> "3" [] q = 4 -> "4"
                  [] q = 6 -> "6" [] q = 12 -> "12" [] OTHER -> "?"

\* int(s) for a digit string
ParseInt(s) == CASE s = "2" -> 2 [] s = "3" -> 3 [] s = "4" -> 4
                 [] s = "6" -> 6 [] s = "12" -> 12 [] OTHER -> NoneVal

\* decision.startswith(prefix + '_')
StartsWith(d, prefix) == Len(d) > Len(prefix) /\ SubSeq(d, 1, Len(prefix)) = prefix

\* int(decision.split('_')[-1])
LastInt(d) == ParseInt(d[Len(d)])

IBMinBars == 5

\* IchimokuBase.__init__: the trend state of a new strategy object
IBInitState ==
    [trend_direction |-> "None", trend_start_idx |-> NoneVal, candle_count |-> 0,
     last_prev_psar |-> NoneVal, first_psar |-> NoneVal, diff |-> NoneVal,
     max_high_since_start |-> NoneVal, min_low_since_start |-> NoneVal,
     tp1_level |-> NoneVal, tp2_level |-> NoneVal, tp1_hit |-> FALSE]

\* Strategy.has_open_position over params.positions (signed quantities)
HasOpenPosition(positions) == \E i \in 1..Len(positions) : Abs(positions[i]) > 0

\* IchimokuBase._get_position_direction
IBGetPositionDirection(positions) ==
    LET nz == {i \in 1..Len(positions) : positions[i] # 0}
    IN  IF nz = {} THEN "None"
        ELSE LET f == CHOOSE i \in nz : \A j \in nz : i <= j
             IN  IF positions[f] > 0 THEN "long" ELSE "short"

\* the PSAR sign of bar i: -1 bullish, +1 bearish
IBSign(psar, close) == IF psar < close THEN 0 - 1 ELSE 1

\* the flip branch with the slip of leaving tp1_hit as it was
IBFlipResetKeepsTp1Hit(st, n, latest_sign, prev_psar, latest_psar, high, low) ==
    LET dir  == IF latest_sign = 0 - 1 THEN "long" ELSE "short"
        diff == Abs(prev_psar - latest_psar)
    IN  [st EXCEPT !.trend_direction = dir,
                   !.trend_start_idx = n - 1,
                   !.candle_count = 1,
                   !.last_prev_psar = prev_psar,
                   !.first_psar = latest_psar,
                   !.diff = diff,
                   !.tp1_level = IF dir = "long" THEN prev_psar + Mul(diff, 382)
                                                 ELSE prev_psar - Mul(diff, 382),
                   !.tp2_level = IF dir = "long" THEN prev_psar + Mul(diff, 500)
                                                 ELSE prev_psar - Mul(diff, 500),
                   !.max_high_since_start = high,
                   !.min_low_since_start = low]

\* the flip branch of run(): a new trend baseline
IBFlipReset(st, n, latest_sign, prev_psar, latest_psar, high, low) ==
    LET dir  == IF latest_sign = 0 - 1 THEN "long" ELSE "short"
        diff == Abs(prev_psar - latest_psar)
    IN  [st EXCEPT !.trend_direction = dir,
                   !.trend_start_idx = n - 1,
                   !.candle_count = 1,
                   !.last_prev_psar = prev_psar,
                   !.first_psar = latest_psar,
                   !.diff = diff,
                   !.tp1_level = IF dir = "long" THEN prev_psar + Mul(diff, 382)
                                                 ELSE prev_psar - Mul(diff, 382),
                   !.tp2_level = IF dir = "long" THEN prev_psar + Mul(diff, 500)
                                                 ELSE prev_psar - Mul(diff, 500),
                   !.tp1_hit = FALSE,
                   !.max_high_since_start = high,
                   !.min_low_since_start = low]

\* the no-flip branch with the slip of leaving the extremes as they were
IBSameTrendKeepsExtremes(st, high, low) ==
    IF st.trend_direction = "None" THEN st
    ELSE [st EXCEPT !.candle_count = st.candle_count + 1]

\* the no-flip branch of run(): counters and extremes
IBSameTrend(st, high, low) ==
    IF st.trend_direction = "None" THEN st
    ELSE [st EXCEPT !.candle_count = st.candle_count + 1,
                    !.max_high_since_start =
                        IF st.max_high_since_start # NoneVal
                          THEN Max2(st.max_high_since_start, high) ELSE high,
                    !.min_low_since_start =
                        IF st.min_low_since_start # NoneVal
                          THEN Min2(st.min_low_since_start, low) ELSE low]

\* the trend update with the slip of not seeing the flip: the state advances
\* as within a trend
IBTrendUpdateMissesFlip(st, data, psar) ==
    IBSameTrend(st, data[Len(data)].high, data[Len(data)].low)

\* "Update internal trend state" of run(); psar is the PSAR series
IBTrendUpdate(st, data, psar) ==
    LET n    == Len(data)
        ls   == IBSign(psar[n], data[n].close)
        ps   == IBSign(psar[n-1], data[n-1].close)
    IN  IF ls # ps
          THEN IBFlipReset(st, n, ls, psar[n-1], psar[n], data[n].high, data[n].low)
          ELSE IBSameTrend(st, data[n].high, data[n].low)

\* the decision part of run(), after the trend update; s is the updated
\* state and psar the PSAR series.  Gives [st, action].
IBDecide(s, data, positions, psar) ==
    LET n      == Len(data)
        latest == psar[n]
        ls     == IBSign(psar[n], data[n].close)
        ps     == IBSign(psar[n-1], data[n-1].close)
        hi     == data[n].high
        lo     == data[n].low
        cl     == data[n].close
        has    == HasOpenPosition(positions)
        dir    == IBGetPositionDirection(positions)
        stop   == has /\ s.trend_direction # "None"
                  /\ \/ (dir = "long" /\ lo <= latest)
                     \/ (dir = "short" /\ hi >= latest)
        tp     == has /\ s.tp1_level # NoneVal /\ s.tp2_level # NoneVal
        addok  == has /\ s.candle_count <= 4 /\ s.diff # NoneVal
        addL   == addok /\ dir = "long" /\ s.trend_direction = "long"
                  /\ cl > s.last_prev_psar
                  /\ s.max_high_since_start < s.last_prev_psar + Mul(s.diff, 500)
        addS   == addok /\ dir = "short" /\ s.trend_direction = "short"
                  /\ cl < s.last_prev_psar
                  /\ s.min_low_since_start > s.last_prev_psar - Mul(s.diff, 500)
    IN  IF stop THEN [st |-> s, action |-> <<"EXIT">>]
        ELSE IF tp /\ dir = "long" /\ hi >= s.tp2_level
          THEN [st |-> s, action |-> <<"EXIT">>]
        ELSE IF tp /\ dir = "long" /\ ~s.tp1_hit /\ hi >= s.tp1_level
          THEN [st |-> [s EXCEPT !.tp1_hit = TRUE], action |-> <<"PARTIAL", "EXIT", "6">>]
        ELSE IF tp /\ dir = "long" /\ s.tp1_hit /\ cl < s.tp1_level
          THEN [st |-> s, action |-> <<"EXIT">>]
        ELSE IF tp /\ dir = "short" /\ lo <= s.tp2_level
          THEN [st |-> s, action |-> <<"EXIT">>]
        ELSE IF tp /\ dir = "short" /\ ~s.tp1_hit /\ lo <= s.tp1_level
          THEN [st |-> [s EXCEPT !.tp1_hit = TRUE], action |-> <<"PARTIAL", "EXIT", "6">>]
        ELSE IF tp /\ dir = "short" /\ s.tp1_hit /\ cl > s.tp1_level
          THEN [st |-> s, action |-> <<"EXIT">>]
        ELSE IF ~has /\ ps = 1 /\ ls = 0 - 1
          THEN [st |-> s, action |-> <<"LONG">>]
        ELSE IF ~has /\ ps = 0 - 1 /\ ls = 1
          THEN [st |-> s, action |-> <<"SHORT">>]
        ELSE IF addL
          THEN [st |-> s,
                action |-> <<"ADD", "LONG",
                             FormatInt(IF cl < s.last_prev_psar + Mul(s.diff, 382)
                                         THEN 12 ELSE 6)>>]
        ELSE IF addS
          THEN [st |-> s,
                action |-> <<"ADD", "SHORT",
                             FormatInt(IF cl > s.last_prev_psar - Mul(s.diff, 382)
                                         THEN 12 ELSE 6)>>]
        ELSE [st |-> s, action |-> <<"STAY">>]

\* run() from the trend update on, with the PSAR series computed
IBRunWith(st, data, positions, psar) ==
    CHOOSE r \in { IBDecide(s, data, positions, psar) :
                      s \in {IBTrendUpdate(st, data, psar)} } : TRUE

\* run() with the slip of a length guard that lets a history of one bar
\* less through
IBRunGuardOneShort(st, data, positions) ==
    IF Len(data) < IBMinBars - 1 THEN [st |-> st, action |-> <<"STAY">>]
    ELSE CHOOSE r \in { IBRunWith(st, data, positions, psar) :
                           psar \in {IBCalculatePsar(data)} } : TRUE

\* IchimokuBase.run(): data is params.contracts[0].data.  (A value bound by
\* "x \in {e}" is computed once, as the assignment to a local is.)
IBRun(st, data, positions) ==
    IF Len(data) < IBMinBars THEN [st |-> st, action |-> <<"STAY">>]
    ELSE CHOOSE r \in { IBRunWith(st, data, positions, psar) :
                           psar \in {IBCalculatePsar(data)} } : TRUE

\* ------------------------------------------------------------------------
\* IchimokuBase.backtest (ichimoku_base.py)
\* ------------------------------------------------------------------------
\* TradeSnapshot(side, qty, entry_date, entry_price); dates are bar days
TradeSnapshot(side, qty, entry_date, entry_price) ==
    [side |-> side, qty |-> qty, entry_date |-> entry_date, entry_price |-> entry_price,
     exit_date |-> NoneVal, exit_price |-> NoneVal, exit_reason |-> "None"]

\* TradeSnapshot.close
SnapClose(snap, exit_date, exit_price, reason) ==
    [snap EXCEPT !.exit_date = exit_date, !.exit_price = exit_price, !.exit_reason = reason]

\* the list comprehension that rebuilds params.positions from open_batches
IBPositionsOf(open) ==
    [i \in 1..Len(open) |-> IF open[i].side = "LONG" THEN open[i].qty ELSE 0 - open[i].qty]

\* close_batches with the slip of leaving the split lot's quantity as it was
RECURSIVE IBCloseLoopKeepsQty(_, _, _, _, _)
IBCloseLoopKeepsQty(b, remaining, date, price, reason) ==
    IF ~(remaining > 0 /\ b.open # << >>) THEN b
    ELSE LET snap == Head(b.open)
         IN  IF snap.qty <= remaining
               THEN IBCloseLoopKeepsQty([open |-> Tail(b.open),
                                         completed |-> Append(b.completed,
                                                   SnapClose(snap, date, price, reason))],
                                        remaining - snap.qty, date, price, reason)
               ELSE [open |-> b.open,
                     completed |-> Append(b.completed,
                                          SnapClose(TradeSnapshot(snap.side, remaining,
                                                        snap.entry_date, snap.entry_price),
                                                    date, price, reason))]

\* while-loop of close_batches; b = [open, completed]
RECURSIVE IBCloseLoop(_, _, _, _, _)
IBCloseLoop(b, remaining, date, price, reason) ==
    IF ~(remaining > 0 /\ b.open # << >>) THEN b
    ELSE LET snap == Head(b.open)
         IN  IF snap.qty <= remaining
               THEN IBCloseLoop([open |-> Tail(b.open),
                                 completed |-> Append(b.completed,
                                                      SnapClose(snap, date, price, reason))],
                                remaining - snap.qty, date, price, reason)
               ELSE LET part == TradeSnapshot(snap.side, remaining,
                                              snap.entry_date, snap.entry_price)
                    IN  IBCloseLoop([open |-> << [snap EXCEPT !.qty = snap.qty - remaining] >>
                                                 \o Tail(b.open),
                                     completed |-> Append(b.completed,
                                                          SnapClose(part, date, price, reason))],
                                    0, date, price, reason)

\* close_batches with the slip of closing the whole first lot when only a
\* part of it is asked for
IBCloseBatchesWholeLot(b, qty_to_close, date, price, reason) ==
    LET r == IBCloseLoop([open |-> b.open, completed |-> b.completed],
                         IF b.open # << >> THEN Max2(qty_to_close, Head(b.open).qty)
                         ELSE qty_to_close, date, price, reason)
    IN  [open |-> r.open, completed |-> r.completed, positions |-> IBPositionsOf(r.open)]

\* close_batches(qty_to_close, price, reason); b = [open, completed, positions]
IBCloseBatches(b, qty_to_close, date, price, reason) ==
    LET r == IBCloseLoop([open |-> b.open, completed |-> b.completed],
                         qty_to_close, date, price, reason)
    IN  [open |-> r.open, completed |-> r.completed, positions |-> IBPositionsOf(r.open)]

\* open_batch with the slip of not recording the lot in params.positions
IBOpenBatchNoPosition(b, side, qty, date, price) ==
    [open |-> Append(b.open, TradeSnapshot(IF side = "long" THEN "LONG" ELSE "SHORT",
                                           qty, date, price)),
     completed |-> b.completed,
     positions |-> b.positions]

\* open_batch(side, qty, price)
IBOpenBatch(b, side, qty, date, price) ==
    [open |-> Append(b.open, TradeSnapshot(IF side = "long" THEN "LONG" ELSE "SHORT",
                                           qty, date, price)),
     completed |-> b.completed,
     positions |-> Append(b.positions, IF side = "long" THEN qty ELSE 0 - qty)]

\* "Map decisions to actions": the books after the decision of one bar
IBMapDecision(b, decision, st, candle) ==
    LET entry == IF st.last_prev_psar # NoneVal THEN st.last_prev_psar ELSE candle.close
    IN  IF decision = <<"LONG">> THEN IBOpenBatch(b, "long", 12, candle.day, entry)
        ELSE IF decision = <<"SHORT">> THEN IBOpenBatch(b, "short", 12, candle.day, entry)
        ELSE IF StartsWith(decision, <<"ADD", "LONG">>)
          THEN IBOpenBatch(b, "long", LastInt(decision), candle.day, candle.close)
        ELSE IF StartsWith(decision, <<"ADD", "SHORT">>)
          THEN IBOpenBatch(b, "short", LastInt(decision), candle.day, candle.close)
        ELSE IF StartsWith(decision, <<"PARTIAL", "EXIT">>)
          THEN IBCloseBatches(b, LastInt(decision), candle.day,
                              IF st.tp1_level # NoneVal THEN st.tp1_level ELSE candle.close,
                              "TP1")
        ELSE IF decision = <<"EXIT">>
          THEN IBCloseBatches(b, SumSeq([i \in 1..Len(b.open) |-> b.open[i].qty]),
                              candle.day, candle.close, "EXIT_SIGNAL")
        ELSE b

\* the slice with the slip of reaching one bar ahead
IBSliceAhead(full, idx) == Prefix(full, idx + 2)

\* the history handed to run() for the bar with 0-based index idx
IBSlice(full, idx) == Prefix(full, idx + 1)

\* the first 0-based index the replay evaluates
IBWarmup == 5

\* the rest of a loop iteration once run() has returned res = [st, action]
IBReplayApply(r, res, full, idx) ==
    CHOOSE out \in
      { [st |-> res.st, open |-> b.open, completed |-> b.completed,
         positions |-> b.positions,
         decisions |-> Append(r.decisions,
                              [date |-> full[idx + 1].day, decision |-> res.action]),
         data |-> IBSlice(full, idx)] :
          b \in {IBMapDecision([open |-> r.open, completed |-> r.completed,
                                positions |-> r.positions],
                               res.action, res.st, full[idx + 1])} } : TRUE

\* one iteration of the replay loop; r = [st, open, completed, positions,
\* decisions, data]
IBReplayBar(r, full, idx) ==
    IF idx < IBWarmup THEN r
    ELSE CHOOSE out \in { IBReplayApply(r, res, full, idx) :
                             res \in {IBRun(r.st, IBSlice(full, idx), r.positions)} } : TRUE

\* "Close remaining at end of data"
RECURSIVE IBCloseRemaining(_, _, _)
IBCloseRemaining(open, completed, last) ==
    IF open = << >> THEN completed
    ELSE IBCloseRemaining(Tail(open),
                          Append(completed, SnapClose(Head(open), last.day, last.close,
                                                      "END_OF_DATA")),
                          last)

\* the whole replay from bar idx on, as backtest() runs it
RECURSIVE IBReplayFrom(_, _, _)
IBReplayFrom(r, full, idx) ==
    IF idx >= Len(full) THEN r ELSE IBReplayFrom(IBReplayBar(r, full, idx), full, idx + 1)

\* the locals and params lists at the start of backtest()
IBReplayStart(st, data) ==
    [st |-> st, open |-> << >>, completed |-> << >>, positions |-> << >>,
     decisions |-> << >>, data |-> data]

\* the decisions backtest() returns for the series full, from trend state st
IBBacktestDecisions(st, full) == IBReplayFrom(IBReplayStart(st, full), full, 0).decisions

\* ========================================================================
\* lib/strategy.py: IchimokuBase on the MES and MYM contracts
\* ========================================================================
LibStartAf == 20
LibIncrementAf == 20
LibMaxAf == 200

\* weekday() and isocalendar()[1] of a bar's date (day 0 is a Monday; the
\* series modelled stay within one year)
Weekday(day) == day % 7

IsoWeek(day) == day \div 7

\* the date of the i-th trading day (from 0), Mondays to Fridays
TradingDay(i) == 7 * (i \div 5) + (i % 5)

\* the same with the market closed before bar g: bar g is the Friday of the
\* week after, the bars after it the trading days that follow
GapDay(i, g) ==
    IF i < g THEN TradingDay(i)
    ELSE 7 * (g \div 5 + 1) + 4 + (IF i = g THEN 0 ELSE i - g + 2)

\* loop body of _calculate_parabolic_sar for bar i (1-based, i >= 2);
\* c = [sar, ep, af, bullish]
LibPsarBar(c, data, i) ==
    LET s1 == c.sar + Mul(c.ep - c.sar, c.af)
    IN  IF c.bullish
          THEN IF s1 > data[i].low
                 THEN [sar |-> c.ep, ep |-> data[i].low, af |-> LibStartAf,
                       bullish |-> FALSE, flipped |-> TRUE]
                 ELSE [sar |-> Min2(s1, data[i-1].low),
                       ep  |-> IF data[i].high > c.ep THEN data[i].high ELSE c.ep,
                       af  |-> IF data[i].high > c.ep
                                 THEN Min2(c.af + LibIncrementAf, LibMaxAf) ELSE c.af,
                       bullish |-> TRUE, flipped |-> FALSE]
          ELSE IF s1 < data[i].high
                 THEN [sar |-> c.ep, ep |-> data[i].high, af |-> LibStartAf,
                       bullish |-> TRUE, flipped |-> TRUE]
                 ELSE [sar |-> Max2(s1, data[i-1].high),
                       ep  |-> IF data[i].low < c.ep THEN data[i].low ELSE c.ep,
                       af  |-> IF data[i].low < c.ep
                                 THEN Min2(c.af + LibIncrementAf, LibMaxAf) ELSE c.af,
                       bullish |-> FALSE, flipped |-> FALSE]

\* the locals before the loop: bullish, af, ep and psar[0]
LibPsarInit(data) ==
    [sar |-> data[1].low, ep |-> data[1].high, af |-> LibStartAf,
     bullish |-> TRUE, flipped |-> FALSE]

RECURSIVE LibPsarLoop(_, _, _, _)
LibPsarLoop(c, data, i, acc) ==
    IF i > Len(data) THEN acc
    ELSE LET n == LibPsarBar(c, data, i)
         IN  LibPsarLoop(n, data, i + 1, Append(acc, n))

\* the loop states, one per bar: psar[i] in .sar, the direction tracked
\* after bar i in .bullish, and whether bar i flipped it
LibPsarTrace(data) == LibPsarLoop(LibPsarInit(data), data, 2, << LibPsarInit(data) >>)

\* _calculate_parabolic_sar(data): the PSAR array (empty for no data)
LibCalculateParabolicSar(data) ==
    IF data = << >> THEN << >>
    ELSE CHOOSE psar \in { [i \in 1..Len(data) |-> t[i].sar] :
                              t \in {LibPsarTrace(data)} } : TRUE

\* data[-n:]
LibLastBars(data, n) == SubSeq(data, Max2(1, Len(data) - n + 1), Len(data))

LibMaxHigh(bars) ==
    CHOOSE h \in {bars[i].high : i \in 1..Len(bars)} : \A j \in 1..Len(bars) : bars[j].high <= h

LibMinLow(bars) ==
    CHOOSE l \in {bars[i].low : i \in 1..Len(bars)} : \A j \in 1..Len(bars) : bars[j].low >= l

\* _calculate_tenkan: 0.5 * (highest high + lowest low) of the last 5 bars
LibCalculateTenkan(data) ==
    Mul(LibMaxHigh(LibLastBars(data, 5)) + LibMinLow(LibLastBars(data, 5)), 500)

\* _calculate_kijun: the same over the last 21 bars
LibCalculateKijun(data) ==
    Mul(LibMaxHigh(LibLastBars(data, 21)) + LibMinLow(LibLastBars(data, 21)), 500)

\* _is_psar_positive / _is_psar_negative for one candle
LibIsPsarPositive(current_psar, candle) == current_psar > candle.close

LibIsPsarNegative(current_psar, candle) == ~LibIsPsarPositive(current_psar, candle)

\* the values i of "for i in range(1, last + 1)" at which bar -(i+1) is
\* negative and bar -i positive
LibUpHits(psar, data, last) ==
    {i \in 1..last : /\ LibIsPsarNegative(psar[Len(psar) - i], data[Len(data) - i])
                     /\ LibIsPsarPositive(psar[Len(psar) - i + 1], data[Len(data) - i + 1])}

\* the same for bar -(i+1) positive and bar -i negative
LibDownHits(psar, data, last) ==
    {i \in 1..last : /\ LibIsPsarPositive(psar[Len(psar) - i], data[Len(data) - i])
                     /\ LibIsPsarNegative(psar[Len(psar) - i + 1], data[Len(data) - i + 1])}

LibFirstOf(hits) == CHOOSE i \in hits : \A j \in hits : i <= j

\* _find_recent_trend_change(psar_data, historical_data, lookback)
LibFindRecentTrendChange(psar, data, lookback) ==
    IF Len(psar) < lookback + 1 \/ LibUpHits(psar, data, lookback) = {}
      THEN [changed |-> FALSE, candles |-> lookback + 1]
      ELSE [changed |-> TRUE, candles |-> LibFirstOf(LibUpHits(psar, data, lookback))]

\* _find_recent_downtrend_change(psar_data, historical_data, lookback)
LibFindRecentDowntrendChange(psar, data, lookback) ==
    IF Len(psar) < lookback + 1 \/ LibDownHits(psar, data, lookback) = {}
      THEN [changed |-> FALSE, candles |-> lookback + 1]
      ELSE [changed |-> TRUE, candles |-> LibFirstOf(LibDownHits(psar, data, lookback))]

\* _get_trend_change_psars: (prev_psar, first_psar) of the latest change from
\* negative to positive, (None, None) if there is none
LibGetTrendChangePsars(psar, data) ==
    LET hits == LibUpHits(psar, data, Len(psar) - 1)
    IN  IF hits = {} THEN [prev |-> NoneVal, first |-> NoneVal]
        ELSE [prev  |-> psar[Len(psar) - LibFirstOf(hits)],
              first |-> psar[Len(psar) - LibFirstOf(hits) + 1]]

\* _get_weekly_candle: is_weekly_candle
LibGetWeeklyCandle(data) ==
    IF Len(data) < 2 THEN FALSE
    ELSE /\ Weekday(data[Len(data)].day) = 4
         /\ IsoWeek(data[Len(data)].day) # IsoWeek(data[Len(data) - 1].day)

\* _check_entry_candle_validation; executed is params.executed_orders
LibCheckEntryCandleValidation(positions, executed, mes, mym, psar_mym) ==
    /\ positions # << >>
    /\ Len(executed) > 0
    /\ executed[Len(executed)].isActive = FALSE
    /\ executed[Len(executed)].isDone = TRUE
    /\ \E k \in 1..Len(positions) :
          \/ /\ positions[k] > 0
             /\ \/ mes[Len(mes)].close < mes[Len(mes)].open
                \/ LibIsPsarNegative(psar_mym, mym[Len(mym)])
          \/ /\ positions[k] < 0
             /\ \/ mes[Len(mes)].close > mes[Len(mes)].open
                \/ LibIsPsarPositive(psar_mym, mym[Len(mym)])

LibMinLenRequired == 22

\* IchimokuBaseParams() as far as the strategy uses it: the two contracts'
\* data and indicators['psar'] (psar_set: the keys exist), the account lists,
\* and number_of_contracts / psar_difference (NoneVal: attribute absent)
LibInitParams ==
    [mes |-> << >>, mym |-> << >>, positions |-> << >>, executed |-> << >>,
     psar_set |-> FALSE, psar_mes |-> << >>, psar_mym |-> << >>, tenkan |-> 0, kijun |-> 0,
     number_of_contracts |-> 0, psar_difference |-> NoneVal]

\* run() from "2. Define trend / flip variables" on; pm and py are the PSAR
\* series of MES and MYM.  Gives [p, action]; action "TypeError" stands for
\* the exception of "first_psar + 0.618 * diff_mes" with first_psar None.
LibRunWith(p, pm, py) ==
    LET mes == p.mes
        mym == p.mym
        n   == Len(mes)
        m   == Len(mym)
        tenkan == LibCalculateTenkan(mes)
        kijun  == LibCalculateKijun(mes)
        close_mes == mes[n].close
        open_mes  == mes[n].open
        close_mym == mym[m].close
        psar_mes  == pm[n]
        psar_mes_prev == pm[n - 1]
        psar_mym  == py[m]
        trend_up_mes   == psar_mes < close_mes
        trend_down_mes == psar_mes > close_mes
        trend_up_mym   == psar_mym < close_mym
        trend_down_mym == psar_mym > close_mym
        flip_up_mes   == trend_up_mes /\ ~(psar_mes_prev < mes[n - 1].close)
        flip_down_mes == trend_down_mes /\ ~(psar_mes_prev > mes[n - 1].close)
        up   == LibFindRecentTrendChange(pm, mes, 4)
        down == LibFindRecentDowntrendChange(pm, mes, 4)
        bars_since_flip_mes == IF up.changed THEN up.candles
                               ELSE IF down.changed THEN down.candles ELSE 999
        tc   == LibGetTrendChangePsars(pm, mes)
        truthy == tc.prev # NoneVal /\ tc.prev # 0 /\ tc.first # NoneVal /\ tc.first # 0
        diff_mes == IF truthy THEN Abs(tc.prev - tc.first) ELSE 0
        has  == HasOpenPosition(p.positions)
        buy_initial  == flip_up_mes /\ trend_up_mym /\ close_mes > open_mes /\ ~has
        sell_initial == flip_down_mes /\ trend_down_mym /\ kijun >= tenkan
                        /\ close_mes < open_mes /\ ~has
        max_high_since_flip == IF bars_since_flip_mes <= n
                                 THEN LibMaxHigh(LibLastBars(mes, bars_since_flip_mes)) ELSE 0
        min_low_since_flip  == IF bars_since_flip_mes <= n
                                 THEN LibMinLow(LibLastBars(mes, bars_since_flip_mes)) ELSE 0
        recent == 2 <= bars_since_flip_mes /\ bars_since_flip_mes <= 4
        buy_reach  == recent /\ trend_up_mes /\ trend_up_mym
        sell_reach == recent /\ trend_down_mes /\ trend_down_mym /\ kijun >= tenkan
        raises == (buy_reach \/ sell_reach) /\ tc.first = NoneVal
        buy_reentry  == buy_reach
                        /\ max_high_since_flip < tc.first + Mul(diff_mes, 618)
                        /\ close_mes > open_mes /\ ~has
        sell_reentry == sell_reach
                        /\ min_low_since_flip > tc.first - Mul(diff_mes, 618)
                        /\ close_mes < open_mes /\ ~has
        stop == has /\ \E k \in 1..Len(p.positions) :
                          \/ (p.positions[k] > 0 /\ psar_mes >= close_mes)
                          \/ (p.positions[k] < 0 /\ psar_mes <= close_mes)
        weekly == LibGetWeeklyCandle(mes) /\ has
                  /\ \E k \in 1..Len(p.positions) :
                          \/ (p.positions[k] > 0 /\ close_mes < open_mes)
                          \/ (p.positions[k] < 0 /\ close_mes > open_mes)
        entry_exit == LibCheckEntryCandleValidation(p.positions, p.executed, mes, mym, psar_mym)
        exit_signal == stop \/ weekly \/ entry_exit
        qty == IF buy_initial THEN 12
               ELSE IF sell_initial THEN 12
               ELSE IF buy_reentry
                 THEN (IF close_mes < tc.first + Mul(diff_mes, 382) THEN 12 ELSE 6)
               ELSE IF sell_reentry
                 THEN (IF close_mes > tc.first - Mul(diff_mes, 382) THEN 12 ELSE 6)
               ELSE 0
        p1 == [p EXCEPT !.psar_set = TRUE, !.psar_mes = pm, !.psar_mym = py,
                        !.tenkan = tenkan, !.kijun = kijun,
                        !.psar_difference = diff_mes]
        p2 == IF qty # 0 THEN [p1 EXCEPT !.number_of_contracts = qty] ELSE p1
    IN  IF raises THEN [p |-> p1, action |-> "TypeError"]
        ELSE IF buy_initial \/ buy_reentry THEN [p |-> p2, action |-> "LONG"]
        ELSE IF sell_initial \/ sell_reentry THEN [p |-> p2, action |-> "SHORT"]
        ELSE IF exit_signal THEN [p |-> p2, action |-> "EXIT"]
        ELSE [p |-> p2, action |-> "STAY"]

\* run() with every entry, initial ones included, sized 6
LibRunEntrySix(p) ==
    IF Len(p.mes) < LibMinLenRequired \/ Len(p.mym) < LibMinLenRequired
      THEN [p |-> p, action |-> "STAY"]
      ELSE LET r == LibRunWith(p, LibCalculateParabolicSar(p.mes),
                               LibCalculateParabolicSar(p.mym))
           IN  IF r.action \in {"LONG", "SHORT"}
                 THEN [r EXCEPT !.p.number_of_contracts = 6] ELSE r

\* IchimokuBase.run() of lib/strategy.py on the params p
LibRun(p) ==
    IF Len(p.mes) < LibMinLenRequired \/ Len(p.mym) < LibMinLenRequired
      THEN [p |-> p, action |-> "STAY"]
      ELSE CHOOSE r \in { LibRunWith(p, pm, py) :
                             pm \in {LibCalculateParabolicSar(p.mes)},
                             py \in {LibCalculateParabolicSar(p.mym)} } : TRUE

\* ------------------------------------------------------------------------
\* IchimokuBase.backtest (lib/strategy.py)
\* ------------------------------------------------------------------------
\* the replay with the slip of handing run() one bar more than the current
LibSliceAhead(full, idx) == Prefix(full, idx + 2)

\* the history handed to run() for the bar with 0-based index idx
LibSlice(full, idx) == Prefix(full, idx + 1)

\* the handling of a decision with the slip of recording no row for a bar
\* on which nothing is opened or closed
LibHandleDecisionSkipsStay(r, res, candle) ==
    LET decision == res.action
        qty == IF res.p.number_of_contracts # 0 THEN res.p.number_of_contracts ELSE 1
        row == [date |-> candle.day, decision |-> decision]
    IN  IF decision \in {"LONG", "SHORT"} /\ r.open_trade = << >>
          THEN [p |-> [res.p EXCEPT !.positions =
                                       << IF decision = "LONG" THEN qty ELSE 0 - qty >>],
                open_trade |-> << TradeSnapshot(decision, qty, candle.day, candle.close) >>,
                trades |-> r.trades,
                decisions |-> Append(r.decisions, row), raised |-> FALSE]
        ELSE IF decision = "EXIT" /\ r.open_trade # << >>
          THEN [p |-> [res.p EXCEPT !.positions = << >>],
                open_trade |-> << >>,
                trades |-> Append(r.trades, SnapClose(r.open_trade[1], candle.day,
                                                      candle.close, "EXIT_SIGNAL")),
                decisions |-> Append(r.decisions, row), raised |-> FALSE]
        ELSE [p |-> res.p, open_trade |-> r.open_trade, trades |-> r.trades,
              decisions |-> r.decisions, raised |-> FALSE]

\* the handling of a decision: r = [p, open_trade, trades, decisions, raised]
\* with open_trade a sequence of at most one TradeSnapshot
LibHandleDecision(r, res, candle) ==
    LET decision == res.action
        qty == IF res.p.number_of_contracts # 0 THEN res.p.number_of_contracts ELSE 1
        row == [date |-> candle.day, decision |-> decision]
    IN  IF decision \in {"LONG", "SHORT"} /\ r.open_trade = << >>
          THEN [p |-> [res.p EXCEPT !.positions =
                                       << IF decision = "LONG" THEN qty ELSE 0 - qty >>],
                open_trade |-> << TradeSnapshot(decision, qty, candle.day, candle.close) >>,
                trades |-> r.trades,
                decisions |-> Append(r.decisions, row), raised |-> FALSE]
        ELSE IF decision = "EXIT" /\ r.open_trade # << >>
          THEN [p |-> [res.p EXCEPT !.positions = << >>],
                open_trade |-> << >>,
                trades |-> Append(r.trades, SnapClose(r.open_trade[1], candle.day,
                                                      candle.close, "EXIT_SIGNAL")),
                decisions |-> Append(r.decisions, row), raised |-> FALSE]
        ELSE [p |-> res.p, open_trade |-> r.open_trade, trades |-> r.trades,
              decisions |-> Append(r.decisions, row), raised |-> FALSE]

\* what the loop body does with the result res of run() for bar idx; an
\* exception of run() leaves the loop with the data slices assigned
LibReplayApply(r, res, full_mes, idx) ==
    IF res.action = "TypeError"
      THEN [p |-> res.p, open_trade |-> r.open_trade, trades |-> r.trades,
            decisions |-> r.decisions, raised |-> TRUE]
      ELSE LibHandleDecision(r, res, full_mes[idx + 1])

\* one iteration of "for idx in range(num_candles)"
LibReplayBar(r, full_mes, full_mym, idx) ==
    CHOOSE out \in
      { LibReplayApply(r, res, full_mes, idx) :
        res \in {LibRun([r.p EXCEPT !.mes = LibSlice(full_mes, idx),
                                    !.mym = LibSlice(full_mym, idx)])} } : TRUE

\* the locals and params lists after "Reset runtime collections"
LibReplayStart(p) ==
    [p |-> [p EXCEPT !.positions = << >>, !.executed = << >>],
     open_trade |-> << >>, trades |-> << >>, decisions |-> << >>, raised |-> FALSE]

\* num_candles = min(len(full_mes), len(full_mym))
LibNumCandles(full_mes, full_mym) == Min2(Len(full_mes), Len(full_mym))

RECURSIVE LibReplayFrom(_, _, _, _)
LibReplayFrom(r, full_mes, full_mym, idx) ==
    IF idx >= LibNumCandles(full_mes, full_mym) \/ r.raised THEN r
    ELSE LibReplayFrom(LibReplayBar(r, full_mes, full_mym, idx), full_mes, full_mym, idx + 1)

\* the decisions backtest() returns for the series, from the params p
LibBacktestDecisions(p, full_mes, full_mym) ==
    LibReplayFrom(LibReplayStart(p), full_mes, full_mym, 0).decisions

\* ------------------------------------------------------------------------
\* IchimokuBase.create_orders (lib/strategy.py).  An order is
\* [type, action, totalQuantity, price, transmit]; the result is the list
\* [parent, stop_loss, tp1, tp2], << >> for None, or <<"KeyError">> when
\* indicators['psar'] was never set.
\* ------------------------------------------------------------------------
Order(type, action, qty, price, transmit) ==
    [type |-> type, action |-> action, totalQuantity |-> qty, price |-> price,
     transmit |-> transmit]

\* tp1_qty of the LONG branch
LibTp1QtyLong(qty) == IF qty <= 12 THEN Min2(6, qty \div 2) ELSE 6

\* tp1_qty of the other branch
LibTp1QtyShort(qty) == IF qty <= 4 THEN Min2(2, qty \div 2) ELSE 2

\* the take-profit prices with the slip of a fallback taken on "difference >= 0"
LibTpPricesFallbackAlways(action, entry_price, difference) ==
    IF action = "LONG"
      THEN IF difference < 0
             THEN [tp1 |-> entry_price + Mul(difference, 382),
                   tp2 |-> entry_price + Mul(difference, 618)]
             ELSE [tp1 |-> Mul(entry_price, 1002), tp2 |-> Mul(entry_price, 1005)]
      ELSE IF difference < 0
             THEN [tp1 |-> entry_price - Mul(difference, 382),
                   tp2 |-> entry_price - Mul(difference, 618)]
             ELSE [tp1 |-> Mul(entry_price, 998), tp2 |-> Mul(entry_price, 995)]

\* tp1_price and tp2_price of a LONG or SHORT plan
LibTpPrices(action, entry_price, difference) ==
    IF action = "LONG"
      THEN IF difference > 0
             THEN [tp1 |-> entry_price + Mul(difference, 382),
                   tp2 |-> entry_price + Mul(difference, 618)]
             ELSE [tp1 |-> Mul(entry_price, 1002), tp2 |-> Mul(entry_price, 1005)]
      ELSE IF difference > 0
             THEN [tp1 |-> entry_price - Mul(difference, 382),
                   tp2 |-> entry_price - Mul(difference, 618)]
             ELSE [tp1 |-> Mul(entry_price, 998), tp2 |-> Mul(entry_price, 995)]

\* the four orders of a plan
PlanOrders(action, qty, tp1_qty, tp2_qty, entry_price, sl_price, tp) ==
    LET open  == IF action = "LONG" THEN "BUY" ELSE "SELL"
        close == IF action = "LONG" THEN "SELL" ELSE "BUY"
    IN  << Order("LMT", open, qty, entry_price, FALSE),
           Order("STP", close, qty, sl_price, FALSE),
           Order("LMT", close, tp1_qty, tp.tp1, FALSE),
           Order("LMT", close, tp2_qty, tp.tp2, TRUE) >>

LibCreateOrders(p, action) ==
    IF p.mes = << >> \/ p.mym = << >> THEN << >>
    ELSE IF ~p.psar_set THEN <<"KeyError">>
    ELSE LET mes_psar_price == IF p.psar_mes # << >> THEN p.psar_mes[Len(p.psar_mes)]
                               ELSE p.mes[Len(p.mes)].close
             difference == IF p.psar_difference = NoneVal THEN 0 ELSE p.psar_difference
             qty     == p.number_of_contracts
             tp1_qty == IF action = "LONG" THEN LibTp1QtyLong(qty) ELSE LibTp1QtyShort(qty)
             tp2_qty == qty - tp1_qty
         IN  IF action \in {"LONG", "SHORT"}
               THEN PlanOrders(action, qty, tp1_qty, tp2_qty, mes_psar_price, mes_psar_price,
                               LibTpPrices(action, mes_psar_price, difference))
               ELSE << >>

\* ------------------------------------------------------------------------
\* Tardio550Strategy.create_orders (lib/strategy.py).  data is the MES
\* data, limit_price the strategy's limit_price, fib_382 and fib_618 the
\* values of params.indicators.  The result is [parent, sl, tp1, tp2],
\* << >> for None, or <<"NameError">>: the SHORT branch reads a name psar
\* that is not defined in the method.
\* ------------------------------------------------------------------------
TardioCreateOrders(data, qty, limit_price, fib_382, fib_618, action) ==
    IF data = << >> THEN << >>
    ELSE IF action = "LONG"
      THEN << Order("LMT", "BUY", qty, limit_price, FALSE),
              Order("STP", "SELL", qty, data[Len(data)].close, FALSE),
              Order("LMT", "SELL", qty \div 2, fib_382, FALSE),
              Order("LMT", "SELL", qty \div 2, fib_618, TRUE) >>
    ELSE IF action = "SHORT" THEN <<"NameError">>
    ELSE << >>

\* ========================================================================
\* components/strategy.py: the IchimokuBase that Trader loads
\* ========================================================================
\* ContractData.has_data(), called by run() and create_order()
HasData(data) == data # << >>

\* ContractData.get_latest_price(), likewise
GetLatestPrice(data) == IF data = << >> THEN NoneVal ELSE data[Len(data)].close

\* calculate_tenkan, calculate_kijun and calculate_parabolic_sar: the code
\* of lib/strategy.py's methods, statement for statement
CsCalculateTenkan(data) == LibCalculateTenkan(data)

CsCalculateKijun(data) == LibCalculateKijun(data)

CsCalculateParabolicSar(data) == LibCalculateParabolicSar(data)

\* is_psar_positive / is_psar_negative: against the close of the last bar
CsIsPsarPositive(current_psar, data) == current_psar > data[Len(data)].close

CsIsPsarNegative(current_psar, data) == ~CsIsPsarPositive(current_psar, data)

\* find_recent_trend_change / find_recent_downtrend_change with lookback=4
CsFindRecentTrendChange(psar, data) == LibFindRecentTrendChange(psar, data, 4)

CsFindRecentDowntrendChange(psar, data) == LibFindRecentDowntrendChange(psar, data, 4)

\* get_trend_change_psars
CsGetTrendChangePsars(psar, data) == LibGetTrendChangePsars(psar, data)

\* calculate_highest_high_since_change / calculate_lowest_low_since_change
CsHighestHighSinceChange(data, candles) == LibMaxHigh(LibLastBars(data, candles))

CsLowestLowSinceChange(data, candles) == LibMinLow(LibLastBars(data, candles))

\* get_weekly_candle: is_weekly_candle
CsGetWeeklyCandle(data) == LibGetWeeklyCandle(data)

\* one entry of params.simulated_mym
CsSimulation(action, entry, tp1, tp2, sl, qty) ==
    [action |-> action, entry |-> entry, tp1 |-> tp1, tp2 |-> tp2, sl |-> sl, qty |-> qty,
     tp1_hit |-> FALSE, tp2_hit |-> FALSE, sl_hit |-> FALSE]

\* what the loop body of _check_mym_simulation finds for one simulation
CsSimHit(sim, price) ==
    IF sim.action = "LONG"
      THEN IF ~sim.tp1_hit /\ price >= sim.tp1 THEN "tp1_hit"
           ELSE IF ~sim.tp2_hit /\ price >= sim.tp2 THEN "tp2_hit"
           ELSE IF ~sim.sl_hit /\ price <= sim.sl THEN "sl_hit"
           ELSE "none"
      ELSE IF ~sim.tp1_hit /\ price <= sim.tp1 THEN "tp1_hit"
           ELSE IF ~sim.tp2_hit /\ price <= sim.tp2 THEN "tp2_hit"
           ELSE IF ~sim.sl_hit /\ price >= sim.sl THEN "sl_hit"
           ELSE "none"

CsMarkHit(sim, hit) ==
    IF hit = "tp1_hit" THEN [sim EXCEPT !.tp1_hit = TRUE]
    ELSE IF hit = "tp2_hit" THEN [sim EXCEPT !.tp2_hit = TRUE]
    ELSE [sim EXCEPT !.sl_hit = TRUE]

\* _check_mym_simulation: [sims, exit]; the first simulation with a level
\* reached gets its flag set and ends the search
CsCheckMymSimulation(sims, mym) ==
    LET hits == {i \in 1..Len(sims) : CsSimHit(sims[i], GetLatestPrice(mym)) # "none"}
    IN  IF sims = << >> \/ ~HasData(mym) \/ hits = {}
          THEN [sims |-> sims, exit |-> FALSE]
          ELSE [sims |-> [sims EXCEPT ![LibFirstOf(hits)] =
                              CsMarkHit(@, CsSimHit(@, GetLatestPrice(mym)))],
                exit |-> TRUE]

\* _check_entry_candle_validation; positions holds position['position']
CsCheckEntryCandleValidation(positions, executed, mes, mym, psar_mym) ==
    /\ positions # << >>
    /\ Len(executed) > 0
    /\ executed[Len(executed)].isActive = FALSE
    /\ executed[Len(executed)].isDone = TRUE
    /\ \E k \in 1..Len(positions) :
          \/ /\ positions[k] > 0
             /\ \/ mes[Len(mes)].close < mes[Len(mes)].open
                \/ CsIsPsarNegative(psar_mym, mym)
          \/ /\ positions[k] < 0
             /\ \/ mes[Len(mes)].close > mes[Len(mes)].open
                \/ CsIsPsarPositive(psar_mym, mym)

\* _update_stop_losses: the list stored in params.stop_loss_updates
CsStopLossUpdates(positions, psar_mes) ==
    LET open == SelectSeq(positions, LAMBDA q : Abs(q) > 0)
    IN  [k \in 1..Len(open) |->
            [position_type |-> IF open[k] > 0 THEN "LONG" ELSE "SHORT",
             new_sl |-> psar_mes, quantity |-> Abs(open[k])]]

\* IchimokuBaseParams() as components/strategy.py uses it (psar_set: the
\* attributes psar_mes and psar_mym exist; NoneVal: attribute absent;
\* simulated_mym and stop_loss_updates empty: absent or empty)
CsInitParams ==
    [mes |-> << >>, mym |-> << >>, positions |-> << >>, executed |-> << >>,
     open_orders |-> << >>,
     psar_set |-> FALSE, psar_mes |-> << >>, psar_mym |-> << >>,
     tenkan |-> NoneVal, kijun |-> NoneVal,
     number_of_contracts |-> 0, psar_difference |-> NoneVal,
     simulated_mym |-> << >>, stop_loss_updates |-> << >>]

\* run() from "Has it been 4 candles or less ..." on; p has tenkan, kijun
\* and the PSAR series pm, py stored
CsRunWith(p, pm, py) ==
    LET mes == p.mes
        mym == p.mym
        tenkan == p.tenkan
        kijun  == p.kijun
        current_psar_mes == pm[Len(pm)]
        current_psar_mym == py[Len(py)]
        up == CsFindRecentTrendChange(pm, mes)
        tc == CsGetTrendChangePsars(pm, mes)
        difference == IF up.changed /\ tc.prev # NoneVal /\ tc.first # NoneVal
                        THEN Abs(tc.prev - tc.first) ELSE 0
        highest_high == IF up.changed THEN CsHighestHighSinceChange(mes, up.candles) ELSE 0
        lowest_low   == IF up.changed THEN CsLowestLowSinceChange(mes, up.candles) ELSE 0
        mes_neg == CsIsPsarNegative(current_psar_mes, mes)
        mym_neg == CsIsPsarNegative(current_psar_mym, mym)
        mes_pos == CsIsPsarPositive(current_psar_mes, mes)
        mym_pos == CsIsPsarPositive(current_psar_mym, mym)
        buy_scale == mes_pos /\ mym_pos /\ up.changed /\ up.candles <= 4
                     /\ difference > 0 /\ highest_high # 0
                     /\ highest_high < Mul(difference, 618)
        down == CsFindRecentDowntrendChange(pm, mes)
        sell_scale == mes_neg /\ mym_neg /\ kijun >= tenkan
                      /\ down.changed /\ down.candles <= 4
                      /\ difference > 0 /\ lowest_low # 0
                      /\ lowest_low > Mul(difference, 618)
        sim == CsCheckMymSimulation(p.simulated_mym, mym)
        psim == [p EXCEPT !.simulated_mym = sim.sims]
    IN  IF mes_neg /\ mym_neg
          THEN [p |-> [p EXCEPT !.number_of_contracts = 12, !.psar_difference = 0],
                action |-> "LONG"]
        ELSE IF buy_scale
          THEN [p |-> [p EXCEPT !.number_of_contracts =
                                   IF mes[Len(mes) - up.candles + 1].close < Mul(difference, 382)
                                     THEN 12 ELSE 6,
                                !.psar_difference = difference],
                action |-> "LONG"]
        ELSE IF mes_pos /\ mym_pos /\ kijun >= tenkan
          THEN [p |-> [p EXCEPT !.number_of_contracts = 12, !.psar_difference = 0],
                action |-> "SHORT"]
        ELSE IF sell_scale
          THEN [p |-> [p EXCEPT !.number_of_contracts =
                                   IF mes[Len(mes) - down.candles + 1].close > Mul(difference, 382)
                                     THEN 4 ELSE 2,
                                !.psar_difference = difference],
                action |-> "SHORT"]
        ELSE IF CsGetWeeklyCandle(mes) /\ mes[Len(mes)].close # mes[Len(mes)].open
          THEN [p |-> p, action |-> "EXIT"]
        ELSE IF sim.exit
          THEN [p |-> psim, action |-> "EXIT"]
        ELSE IF CsCheckEntryCandleValidation(p.positions, p.executed, mes, mym, current_psar_mym)
          THEN [p |-> psim, action |-> "EXIT"]
        ELSE [p |-> IF p.positions = << >> THEN psim
                    ELSE [psim EXCEPT !.stop_loss_updates =
                                         CsStopLossUpdates(p.positions, current_psar_mes)],
              action |-> "STAY"]

\* run(): the guards, the indicators, then the rules
CsRun(p) ==
    IF ~HasData(p.mes) \/ ~HasData(p.mym) THEN [p |-> p, action |-> "STAY"]
    ELSE CHOOSE r \in
           { CsRunWith([p EXCEPT !.tenkan = CsCalculateTenkan(p.mes),
                                 !.kijun = CsCalculateKijun(p.mes),
                                 !.psar_set = TRUE, !.psar_mes = pm, !.psar_mym = py],
                       pm, py) :
             pm \in {CsCalculateParabolicSar(p.mes)},
             py \in {CsCalculateParabolicSar(p.mym)} } : TRUE

\* create_order(action): [p, orders]; orders is << >> for None and
\* <<"AttributeError">> when run() has not stored a PSAR series yet
CsCreateOrder(p, action) ==
    IF ~HasData(p.mes) \/ ~HasData(p.mym) THEN [p |-> p, orders |-> << >>]
    ELSE IF ~p.psar_set THEN [p |-> p, orders |-> <<"AttributeError">>]
    ELSE LET mes_psar_price == IF p.psar_mes # << >> THEN p.psar_mes[Len(p.psar_mes)]
                               ELSE GetLatestPrice(p.mes)
             mym_psar_price == IF p.psar_mym # << >> THEN p.psar_mym[Len(p.psar_mym)]
                               ELSE GetLatestPrice(p.mym)
             difference == IF p.psar_difference = NoneVal THEN 0 ELSE p.psar_difference
             qty     == p.number_of_contracts
             tp1_qty == IF action = "LONG" THEN LibTp1QtyLong(qty) ELSE LibTp1QtyShort(qty)
             tp2_qty == qty - tp1_qty
             tp      == LibTpPrices(action, mes_psar_price, difference)
         IN  IF action \in {"LONG", "SHORT"}
               THEN [p |-> [p EXCEPT !.simulated_mym =
                               Append(@, CsSimulation(action, mym_psar_price, tp.tp1, tp.tp2,
                                                      mes_psar_price, qty))],
                     orders |-> PlanOrders(action, qty, tp1_qty, tp2_qty, mes_psar_price,
                                           mes_psar_price, tp)]
               ELSE [p |-> p, orders |-> << >>]
\* ------------------------------------------------------------------------
\* Trader.run_backtest (components/trader.py)
\* ------------------------------------------------------------------------
TrMinPeriods == 26

\* the upper limit of the price checks "0 < price < 50000"
TrPriceLimit == P(50000)

\* the replay with the slip of handing run() one bar more than the current
TrSubsetAhead(historical_data, i) == Prefix(historical_data, i + 2)

\* subset_data = historical_data[:i+1]
TrSubset(historical_data, i) == Prefix(historical_data, i + 1)

\* the locals before the loop
TrInitLocals ==
    [position |-> "None", entry_price |-> 0, quantity |-> 0, tp1_price |-> 0,
     tp2_price |-> 0, sl_price |-> 0, tp1_qty |-> 0, tp2_qty |-> 0, cumulative_pnl |-> 0]

\* the level reached by the close of the candle, "" if none
TrLevelHit(loc, candle) ==
    IF loc.position = "LONG"
      THEN IF candle.close <= loc.sl_price THEN "SL"
           ELSE IF loc.tp1_qty > 0 /\ candle.close >= loc.tp1_price THEN "TP1"
           ELSE IF loc.tp2_qty > 0 /\ loc.tp1_qty = 0 /\ candle.close >= loc.tp2_price THEN "TP2"
           ELSE ""
    ELSE IF loc.position = "SHORT"
      THEN IF candle.close >= loc.sl_price THEN "SL"
           ELSE IF loc.tp1_qty > 0 /\ candle.close <= loc.tp1_price THEN "TP1"
           ELSE IF loc.tp2_qty > 0 /\ loc.tp1_qty = 0 /\ candle.close <= loc.tp2_price THEN "TP2"
           ELSE ""
    ELSE ""

\* the update with the slip of leaving the remaining quantity as it was when
\* the TP1 leg is filled
TrAfterExitKeepsQuantity(loc, exit_reason) ==
    LET t == IF exit_reason = "TP1"
               THEN [loc EXCEPT !.tp1_qty = 0]
             ELSE IF exit_reason = "TP2"
               THEN [loc EXCEPT !.tp2_qty = 0,
                                !.quantity = IF loc.tp1_qty = 0 THEN 0 ELSE loc.quantity]
             ELSE [loc EXCEPT !.quantity = 0, !.tp1_qty = 0, !.tp2_qty = 0]
    IN  IF t.quantity <= 0 /\ t.tp1_qty <= 0 /\ t.tp2_qty <= 0
          THEN [TrInitLocals EXCEPT !.cumulative_pnl = t.cumulative_pnl]
          ELSE t

\* "Update position tracking" and "Close position completely": the locals
\* after an exit for the given reason
TrAfterExit(loc, exit_reason) ==
    LET t == IF exit_reason = "TP1"
               THEN [loc EXCEPT !.tp1_qty = 0, !.quantity = loc.tp2_qty]
             ELSE IF exit_reason = "TP2"
               THEN [loc EXCEPT !.tp2_qty = 0,
                                !.quantity = IF loc.tp1_qty = 0 THEN 0 ELSE loc.quantity]
             ELSE [loc EXCEPT !.quantity = 0, !.tp1_qty = 0, !.tp2_qty = 0]
    IN  IF t.quantity <= 0 /\ t.tp1_qty <= 0 /\ t.tp2_qty <= 0
          THEN [TrInitLocals EXCEPT !.cumulative_pnl = t.cumulative_pnl]
          ELSE t

\* "Check for exits first": [loc, row] from the locals and the row so far
TrExits(loc, row, decision, candle) ==
    LET level == TrLevelHit(loc, candle)
        exit_reason == IF decision = "EXIT" THEN "EXIT_SIGNAL" ELSE level
        exit_price  == IF exit_reason = "" THEN NoneVal ELSE candle.close
        quantity    == IF decision = "EXIT" THEN 0 ELSE loc.quantity
        exit_qty    == IF exit_reason = "TP1" THEN loc.tp1_qty
                       ELSE IF exit_reason = "TP2" THEN loc.tp2_qty ELSE quantity
        pnl == IF loc.position = "LONG" THEN (exit_price - loc.entry_price) * exit_qty
               ELSE (loc.entry_price - exit_price) * exit_qty
    IN  IF loc.position = "None" THEN [loc |-> loc, row |-> row]
        ELSE IF exit_price = NoneVal \/ exit_price = 0
          THEN [loc |-> [loc EXCEPT !.quantity = quantity], row |-> row]
        ELSE [loc |-> TrAfterExit([loc EXCEPT !.quantity = quantity,
                                              !.cumulative_pnl = @ + pnl], exit_reason),
              row |-> [row EXCEPT !.exit_price = exit_price, !.pnl = pnl,
                                  !.cumulative_pnl = loc.cumulative_pnl + pnl,
                                  !.decision = IF decision = "EXIT" THEN <<exit_reason>>
                                               ELSE <<decision, exit_reason>>]]

\* a price that fails "0 < price < 50000" is replaced
TrValid(price) == 0 < price /\ price < TrPriceLimit

\* the locals of a new position, from the orders [parent, stop, tp1, tp2]
TrEnter(loc, decision, orders, candle) ==
    LET entry_price == IF TrValid(orders[1].price) THEN orders[1].price ELSE candle.close
        sl_price    == IF TrValid(orders[2].price) THEN orders[2].price ELSE entry_price
        tp1_price   == IF TrValid(orders[3].price) THEN orders[3].price
                       ELSE Mul(entry_price, IF decision = "LONG" THEN 1010 ELSE 990)
        tp2_price   == IF TrValid(orders[4].price) THEN orders[4].price
                       ELSE Mul(entry_price, IF decision = "LONG" THEN 1020 ELSE 980)
    IN  [loc EXCEPT !.position = decision, !.entry_price = entry_price,
                    !.quantity = orders[1].totalQuantity, !.sl_price = sl_price,
                    !.tp1_price = tp1_price, !.tp2_price = tp2_price,
                    !.tp1_qty = orders[3].totalQuantity, !.tp2_qty = orders[4].totalQuantity]

\* "Check for new entries": [p, loc, row, raised]
TrEntries(p, x, decision, candle) ==
    IF x.loc.position = "None" /\ decision \in {"LONG", "SHORT"}
      THEN CHOOSE out \in
             { IF c.orders = <<"AttributeError">>
                 THEN [p |-> c.p, loc |-> x.loc, row |-> x.row, raised |-> TRUE]
               ELSE IF c.orders = << >>
                 THEN [p |-> c.p, loc |-> x.loc, row |-> x.row, raised |-> FALSE]
               ELSE [p |-> c.p, loc |-> TrEnter(x.loc, decision, c.orders, candle),
                     row |-> [x.row EXCEPT !.entry_price =
                                 TrEnter(x.loc, decision, c.orders, candle).entry_price],
                     raised |-> FALSE] :
               c \in {CsCreateOrder(p, decision)} } : TRUE
      ELSE [p |-> p, loc |-> x.loc, row |-> x.row, raised |-> FALSE]

\* backtest_row as it is initialised ('' is NoneVal)
TrRow(candle, prev_candle, decision, cumulative_pnl) ==
    [date |-> candle.day, open |-> candle.open, high |-> candle.high, low |-> candle.low,
     close |-> candle.close, prev_close |-> prev_candle.close, decision |-> <<decision>>,
     entry_price |-> NoneVal, exit_price |-> NoneVal, pnl |-> 0,
     cumulative_pnl |-> cumulative_pnl]

\* the loop body after run() has returned res for bar i (0-based);
\* r = [p, loc, backtest, raised]; data and mym_data are the contracts'
\* original data, put back at the end of the iteration
TrReplayApply(r, res, data, mym_data, i) ==
    LET candle   == data[i + 1]
        decision == res.action
        x == TrExits(r.loc, TrRow(candle, data[i], decision, r.loc.cumulative_pnl),
                     decision, candle)
        e == TrEntries(res.p, x, decision, candle)
    IN  IF e.raised
          THEN [p |-> e.p, loc |-> e.loc, backtest |-> r.backtest, raised |-> TRUE]
          ELSE [p |-> [e.p EXCEPT !.mes = data, !.mym = mym_data],
                loc |-> e.loc,
                backtest |-> Append(r.backtest,
                                    [e.row EXCEPT !.cumulative_pnl = e.loc.cumulative_pnl]),
                raised |-> FALSE]

\* the params run() is called on for bar i: every contract that has data is
\* given the subset of the main contract, and the account lists are cleared
TrParamsFor(p, data, i) ==
    [p EXCEPT !.mes = TrSubset(data, i),
              !.mym = IF p.mym # << >> THEN TrSubset(data, i) ELSE p.mym,
              !.open_orders = << >>, !.executed = << >>, !.positions = << >>]

\* one iteration of "for i in range(min_periods, len(historical_data))"
TrReplayBar(r, data, mym_data, i) ==
    CHOOSE out \in { TrReplayApply(r, res, data, mym_data, i) :
                        res \in {CsRun(TrParamsFor(r.p, data, i))} } : TRUE

RECURSIVE TrReplayFrom(_, _, _, _)
TrReplayFrom(r, data, mym_data, i) ==
    IF i >= Len(data) \/ r.raised THEN r
    ELSE TrReplayFrom(TrReplayBar(r, data, mym_data, i), data, mym_data, i + 1)

\* self.backtest after run_backtest() on a strategy with the params p
TrBacktestRows(p) ==
    IF p.mes = << >> \/ Len(p.mes) < TrMinPeriods THEN << >>
    ELSE TrReplayFrom([p |-> p, loc |-> TrInitLocals, backtest |-> << >>, raised |-> FALSE],
                      p.mes, p.mym, TrMinPeriods).backtest
\* ------------------------------------------------------------------------
\* TTSStrategy (lib/strategy.py)
\* ------------------------------------------------------------------------
\* the window of the Bollinger bands
TtsWindow == 20

\* run() needs 20 bars for the bands and the bar before
TtsMinBars == 21

\* number_of_contracts of TTSParams
TtsQty == 12

\* 20 times midband[n] of the bars (1-based n): midband is
\* (upper + lower) / 2, the 20-bar mean of the closes
TtsMidband20(data, n) ==
    SumSeq([i \in 1..TtsWindow |-> data[n - TtsWindow + i].close])

\* 40 times the TTS of the last bar of data: factor1 + factor2 + factor3 -
\* factor4, with factor3 = 1.5 (close - open) and factor4 the step of the
\* midband.  The signs and the zero of the value are those of the TTS.
TtsValue(data) ==
    LET n == Len(data)
        c == data[n]
    IN  40 * ((c.open - c.high) + (c.open - c.low)) + 60 * (c.close - c.open)
          - 2 * (TtsMidband20(data, n) - TtsMidband20(data, n - 1))

\* "Save TTS value history": params.indicators['tts'] after the update
TtsSave(previous_tts_series, n, tts) ==
    IF Len(previous_tts_series) = n - 1 THEN Append(previous_tts_series, tts)
    ELSE IF previous_tts_series # << >>
      THEN [previous_tts_series EXCEPT ![Len(previous_tts_series)] = tts]
    ELSE << tts >>

\* the exit signal of run(): inversion, then the stop at the low / high of
\* the week before
TtsExitSignal(data, positions, tts) ==
    LET n == Len(data)
        inversion == \E i \in 1..Len(positions) :
                         \/ positions[i] > 0 /\ tts < 0
                         \/ positions[i] < 0 /\ tts > 0
        stop == \E i \in 1..Len(positions) :
                    \/ positions[i] > 0 /\ data[n].close <= data[n - 1].low
                    \/ positions[i] < 0 /\ data[n].close >= data[n - 1].high
    IN  HasOpenPosition(positions) /\ (inversion \/ stop)

\* TTSStrategy.run(): [tts, action], tts the stored history after the call
TtsRun(series, data, positions) ==
    IF Len(data) < TtsMinBars THEN [tts |-> series, action |-> "STAY"]
    ELSE LET tts      == TtsValue(data)
             saved    == TtsSave(series, Len(data), tts)
             tts_prev == IF Len(saved) >= 2 THEN saved[Len(saved) - 1] ELSE 0
             long_signal  == tts > 0 /\ tts_prev <= 0
             short_signal == tts < 0 /\ tts_prev >= 0
             has == HasOpenPosition(positions)
         IN  [tts |-> saved,
              action |-> IF long_signal /\ ~has THEN "LONG"
                         ELSE IF short_signal /\ ~has THEN "SHORT"
                         ELSE IF TtsExitSignal(data, positions, tts) THEN "EXIT"
                         ELSE "STAY"]

\* params.positions after the decision of a replayed bar; open_trade is None
\* exactly when the list is empty
TtsApply(positions, decision) ==
    IF decision \in {"LONG", "SHORT"} /\ positions = << >>
      THEN << IF decision = "LONG" THEN TtsQty ELSE 0 - TtsQty >>
    ELSE IF decision = "EXIT" /\ positions # << >> THEN << >>
    ELSE positions
\* ========================================================================
\* State.  Each part of the program has its own variables; a behaviour
\* exercises one part and leaves the variables of the others alone.
\* ========================================================================
\* which part a behaviour exercises: "ib", "lib", "trader", "ibrun", "librun",
\* "csrun", "live", "orders", "psar", "conn" or "tts"
VARIABLE engine

\* -- IchimokuBase.backtest (components/strategy/ichimoku_base.py)
VARIABLES
    ib_full,        \* full_historical_data of the call in progress
    ib_data,        \* params.contracts[0].data
    ib_st,          \* the trend state of the strategy object
    ib_positions,   \* params.positions
    ib_open,        \* open_batches
    ib_completed,   \* completed_trades
    ib_decisions,   \* decisions
    ib_idx,         \* the loop index
    ib_pc,          \* "idle", "loop" or "returned"
    ib_returned,    \* what the finished calls returned, in call order
    ib_opened       \* history: the quantity open_batch has opened in this call

ibVars == <<ib_full, ib_data, ib_st, ib_positions, ib_open, ib_completed,
            ib_decisions, ib_idx, ib_pc, ib_returned, ib_opened>>

\* -- IchimokuBase.backtest (lib/strategy.py)
VARIABLES
    lb_full_mes,    \* full_mes of the call in progress
    lb_full_mym,    \* full_mym of the call in progress
    lb_p,           \* self.params
    lb_open_trade,  \* open_trade (a sequence of at most one TradeSnapshot)
    lb_trades,      \* trades
    lb_decisions,   \* decisions
    lb_idx,         \* the loop index
    lb_pc,          \* "idle", "loop", "raised" or "returned"
    lb_last         \* history: what run() returned for the latest bar

lbVars == <<lb_full_mes, lb_full_mym, lb_p, lb_open_trade, lb_trades,
            lb_decisions, lb_idx, lb_pc, lb_last>>

\* -- Trader.run_backtest (components/trader.py)
VARIABLES
    tr_p,           \* self.strategy.params
    tr_data,        \* historical_data
    tr_loc,         \* the position locals of run_backtest
    tr_backtest,    \* self.backtest
    tr_i,           \* the loop index
    tr_pc           \* "idle", "loop", "raised" or "returned"

trVars == <<tr_p, tr_data, tr_loc, tr_backtest, tr_i, tr_pc>>


\* -- run() on refreshed params (components/strategy/ichimoku_base.py)
VARIABLES
    rn_market,      \* the bars the data manager has for the contract
    rn_data,        \* params.contracts[0].data
    rn_positions,   \* params.positions
    rn_st,          \* the trend state of the strategy object
    rn_pre,         \* history: the trend state when run() was last called
    rn_action,      \* what run() last returned
    rn_runs,        \* the number of run() calls made
    rn_pc           \* "idle", "refreshed" or "ran"

rnVars == <<rn_market, rn_data, rn_positions, rn_st, rn_pre, rn_action, rn_runs, rn_pc>>

\* -- run() on refreshed params (lib/strategy.py)
VARIABLES
    lr_market,      \* the bars the data manager has for MES and for MYM
    lr_p,           \* self.params
    lr_pre,         \* history: the params when run() was last called
    lr_action,      \* what run() last returned, "TypeError" if it raised
    lr_pc           \* "idle", "refreshed" or "ran"

lrVars == <<lr_market, lr_p, lr_pre, lr_action, lr_pc>>

\* -- run() in Trader.run_strategy (components/strategy.py)
VARIABLES
    cr_market,      \* the bars the broker has for MES and for MYM
    cr_p,           \* strategy.params
    cr_pre,         \* history: the params when run() was last called
    cr_action,      \* self.decision
    cr_pc,          \* "idle" (top of the loop), "refreshed" or "ran"
    cr_runs,        \* how often run_strategy has called strategy.run()
    cr_slept        \* time.sleep(SLEEP_TIME) was called since the last run()

crVars == <<cr_market, cr_p, cr_pre, cr_action, cr_pc, cr_runs, cr_slept>>

\* -- the order builders
VARIABLES
    od_builder,     \* "lib", "cs" or "tardio": whose method is called
    od_action,      \* the action it is called with
    od_data,        \* the data of the contracts
    od_qty,         \* params.number_of_contracts
    od_price,       \* the latest PSAR value / limit_price
    od_difference,  \* params.psar_difference (NoneVal: absent)
    od_plan,        \* what the method returned
    od_pc           \* "idle" or "built"

odVars == <<od_builder, od_action, od_data, od_qty, od_price, od_difference, od_plan, od_pc>>

\* -- the PSAR computations
VARIABLES
    ps_bars,        \* the bars handed to the PSAR functions
    ps_ib,          \* the loop states of _calculate_psar, << >> before the call
    ps_lib,         \* the loop states of _calculate_parabolic_sar, likewise
    ps_ib_out,      \* how _calculate_psar ended: "none" before the call, "series"
                    \* or the name of the exception raised
    ps_lib_out      \* how _calculate_parabolic_sar ended, likewise

psVars == <<ps_bars, ps_ib, ps_lib, ps_ib_out, ps_lib_out>>

\* -- the connection manager and the threads that reconnect
VARIABLES
    cn_connected,   \* ib.isConnected()
    cn_attempts,    \* self.reconnect_attempts
    cn_pc,          \* where each thread is
    cn_tmp,         \* the value a thread has loaded for "reconnect_attempts += 1"
    cn_try,         \* the local attempt of a thread's connect()
    cn_res,         \* how a thread's connectAsync ended: "none", "raised", "returned"
    cn_calls,       \* history: the number of reconnect() calls made
    cn_connects     \* history: connect() calls of reconnect() since the last
                    \* established connection

cnVars == <<cn_connected, cn_attempts, cn_pc, cn_tmp, cn_try, cn_res, cn_calls, cn_connects>>

\* -- the replay of TTSStrategy.backtest
VARIABLES
    tt_full,        \* mbt_full: the whole weekly history
    tt_data,        \* params.get_mbt_data().data
    tt_tts,         \* params.indicators['tts']
    tt_positions,   \* params.positions (signed quantities)
    tt_decisions,   \* decisions
    tt_idx,         \* the loop index
    tt_pc           \* "idle", "loop" or "returned"

ttVars == <<tt_full, tt_data, tt_tts, tt_positions, tt_decisions, tt_idx, tt_pc>>

ibOthers == <<engine, lbVars, trVars, rnVars, lrVars, crVars, odVars, psVars, cnVars, ttVars>>

lbOthers == <<engine, ibVars, trVars, rnVars, lrVars, crVars, odVars, psVars, cnVars, ttVars>>

trOthers == <<engine, ibVars, lbVars, rnVars, lrVars, crVars, odVars, psVars, cnVars, ttVars>>

rnOthers == <<engine, ibVars, lbVars, trVars, lrVars, crVars, odVars, psVars, cnVars, ttVars>>

lrOthers == <<engine, ibVars, lbVars, trVars, rnVars, crVars, odVars, psVars, cnVars, ttVars>>

crOthers == <<engine, ibVars, lbVars, trVars, rnVars, lrVars, odVars, psVars, cnVars, ttVars>>

odOthers == <<engine, ibVars, lbVars, trVars, rnVars, lrVars, crVars, psVars, cnVars, ttVars>>

psOthers == <<engine, ibVars, lbVars, trVars, rnVars, lrVars, crVars, odVars, cnVars, ttVars>>

cnOthers == <<engine, ibVars, lbVars, trVars, rnVars, lrVars, crVars, odVars, psVars, ttVars>>

ttOthers == <<engine, ibVars, lbVars, trVars, rnVars, lrVars, crVars, odVars, psVars, cnVars>>

vars == <<engine, ibVars, lbVars, trVars, rnVars, lrVars, crVars, odVars, psVars, cnVars, ttVars>>

\* ------------------------------------------------------------------------
\* Replay of IchimokuBase.backtest as a state machine: one step per loop
\* iteration; backtest() may be called again on the same strategy object.
\* ------------------------------------------------------------------------
\* number of bars after the warm-up bars in a replayed series
IBFree == 4

\* number of backtest() calls made on one strategy object
IBMaxCalls == 2

IBWarmBars ==
    << Bar(20, 20, 18, 19, 0), Bar(19, 19, 17, 18, 1), Bar(18, 18, 16, 17, 2),
       Bar(17, 17, 15, 16, 3), Bar(16, 16, 14, 15, 4) >>

IBShapes ==
    { <<10, 12, 10, 11>>, <<20, 26, 20, 26>>, <<14, 26, 14, 14>>,
      <<20, 22, 20, 22>>, <<16, 22, 16, 19>> }

IBSeries ==
    { IBWarmBars \o [i \in 1..IBFree |-> Bar(f[i][1], f[i][2], f[i][3], f[i][4], 4 + i)] :
        f \in [1..IBFree -> IBShapes] }

\* bars that stay under the first take-profit level after a flip and then
\* reach it: replays with add-ons before the partial exit
IBAddOnShapes ==
    { <<19, 19, 18, 18>>, <<19, 20, 19, 20>>, <<22, 22, 17, 19>> }

IBAddOnSeries ==
    { IBWarmBars \o [i \in 1..IBFree |-> Bar(f[i][1], f[i][2], f[i][3], f[i][4], 4 + i)] :
        f \in [1..IBFree -> IBAddOnShapes] }

\* the series s with its last bar dated the day before the bar that precedes
\* it: the timestamps are not strictly increasing
OutOfOrder(s) == [s EXCEPT ![Len(s)].day = s[Len(s) - 1].day - 1]

\* histories delivered out of order: those with one shape after the warm-up
IBDisordered ==
    { OutOfOrder(s) : s \in { x \in IBSeries :
          \A i \in (Len(IBWarmBars) + 1)..Len(x) :
              <<x[i].open, x[i].high, x[i].low, x[i].close>>
                = <<x[Len(x)].open, x[Len(x)].high, x[Len(x)].low, x[Len(x)].close>> } }

IBInit ==
    /\ ib_data \in IBSeries \cup IBDisordered \cup IBAddOnSeries
    /\ ib_full = << >>
    /\ ib_st = IBInitState
    /\ ib_positions = << >>
    /\ ib_open = << >>
    /\ ib_completed = << >>
    /\ ib_decisions = << >>
    /\ ib_idx = 0
    /\ ib_pc = "idle"
    /\ ib_returned = << >>
    /\ ib_opened = 0

IBIdle ==
    /\ ib_data = << >> /\ ib_full = << >> /\ ib_st = IBInitState /\ ib_positions = << >>
    /\ ib_open = << >> /\ ib_completed = << >> /\ ib_decisions = << >> /\ ib_idx = 0
    /\ ib_pc = "idle" /\ ib_returned = << >> /\ ib_opened = 0

\* backtest() is entered: the params lists and the locals are reset
IBBacktestCall ==
    /\ engine = "ib"
    /\ ib_pc \in {"idle", "returned"}
    /\ Len(ib_returned) < IBMaxCalls
    /\ ib_full' = ib_data
    /\ ib_positions' = << >>
    /\ ib_open' = << >>
    /\ ib_completed' = << >>
    /\ ib_decisions' = << >>
    /\ ib_idx' = 0
    /\ ib_opened' = 0
    /\ ib_pc' = "loop"
    /\ UNCHANGED <<ib_data, ib_st, ib_returned>>
    /\ UNCHANGED ibOthers

\* the quantity a decision opens
IBOpenedBy(decision) ==
    IF decision = <<"LONG">> \/ decision = <<"SHORT">> THEN 12
    ELSE IF StartsWith(decision, <<"ADD">>) THEN LastInt(decision)
    ELSE 0

\* one iteration of "for idx, candle in enumerate(full_historical_data)"
IBBacktestBar ==
    /\ engine = "ib"
    /\ ib_pc = "loop"
    /\ ib_idx < Len(ib_full)
    /\ \E r \in {IBReplayBar([st |-> ib_st, open |-> ib_open, completed |-> ib_completed,
                              positions |-> ib_positions, decisions |-> ib_decisions,
                              data |-> ib_data], ib_full, ib_idx)} :
           /\ ib_st' = r.st
           /\ ib_open' = r.open
           /\ ib_completed' = r.completed
           /\ ib_positions' = r.positions
           /\ ib_decisions' = r.decisions
           /\ ib_data' = r.data
           /\ ib_opened' = ib_opened
                + (IF Len(r.decisions) > Len(ib_decisions)
                     THEN IBOpenedBy(r.decisions[Len(r.decisions)].decision) ELSE 0)
    /\ ib_idx' = ib_idx + 1
    /\ UNCHANGED <<ib_full, ib_pc, ib_returned>>
    /\ UNCHANGED ibOthers

\* the loop is over: the open lots are closed at the last bar and
\* backtest() returns (completed_trades, decisions)
IBBacktestReturn ==
    /\ engine = "ib"
    /\ ib_pc = "loop"
    /\ ib_idx >= Len(ib_full)
    /\ LET last == ib_full[Len(ib_full)]
           done == IBCloseRemaining(ib_open, ib_completed, last)
       IN  /\ ib_completed' = done
           /\ ib_open' = [i \in 1..Len(ib_open) |->
                            SnapClose(ib_open[i], last.day, last.close, "END_OF_DATA")]
           /\ ib_returned' = Append(ib_returned, [trades |-> done, decisions |-> ib_decisions])
    /\ ib_pc' = "returned"
    /\ UNCHANGED <<ib_full, ib_data, ib_st, ib_positions, ib_decisions, ib_idx, ib_opened>>
    /\ UNCHANGED ibOthers

\* ------------------------------------------------------------------------
\* Replay of lib/strategy.py's IchimokuBase.backtest as a state machine:
\* one step per iteration of "for idx in range(num_candles)".
\* ------------------------------------------------------------------------
\* number of bars after the warm-up bars in a replayed series
LibFree == 3

\* number of warm-up bars: the 21 bars run() needs before it decides
LibWarm == LibMinLenRequired - 1

\* the date of the bar with 0-based index i: trading days only, bar 0 on a
\* Monday; with gap set the bar after the first free one is the Friday of
\* the week after, the first bar of its week
LibDay(i, gap) == IF gap THEN GapDay(i, LibWarm + 2) ELSE TradingDay(i)

\* a flat first bar and a steady decline after it
LibWarmShape(i) ==
    IF i = 1 THEN <<40, 40, 40, 40>> ELSE <<41 - i, 41 - i, 39 - i, 40 - i>>

LibShapes ==
    { <<21, 26, 18, 25>>, <<12, 13, 9, 10>>, <<13, 16, 7, 15>>, <<23, 23, 22, 23>> }

LibShapeAt(f, i) == IF i <= LibWarm THEN LibWarmShape(i) ELSE f[i - LibWarm]

LibSeriesOf(f, gap) ==
    [i \in 1..(LibWarm + LibFree) |->
        Bar(LibShapeAt(f, i)[1], LibShapeAt(f, i)[2], LibShapeAt(f, i)[3],
            LibShapeAt(f, i)[4], LibDay(i - 1, gap))]

LibSeries ==
    { LibSeriesOf(f, gap) : f \in [1..LibFree -> LibShapes], gap \in BOOLEAN }

\* histories delivered out of order: one shape after the warm-up bars, the
\* last bar dated the day before the bar that precedes it
LibDisordered ==
    { OutOfOrder(LibSeriesOf([i \in 1..LibFree |-> shape], FALSE)) : shape \in LibShapes }

\* a decline all the way, on the dates of the series s
LibDecline(s) ==
    [i \in 1..Len(s) |-> Bar(61 - i, 61 - i, 59 - i, 60 - i, s[i].day)]

\* the MYM histories that go with the MES history s: the same bars, the
\* same with the latest bar not yet delivered, or a steady decline
LibMymFor(s) == { s, Prefix(s, Len(s) - 1), LibDecline(s) }

LibNoRun == [p |-> LibInitParams, action |-> "None"]

LibInit ==
    /\ \E s \in LibSeries \cup LibDisordered : \E y \in LibMymFor(s) :
          lb_p = [LibInitParams EXCEPT !.mes = s, !.mym = y]
    /\ lb_full_mes = << >>
    /\ lb_full_mym = << >>
    /\ lb_open_trade = << >>
    /\ lb_trades = << >>
    /\ lb_decisions = << >>
    /\ lb_idx = 0
    /\ lb_pc = "idle"
    /\ lb_last = LibNoRun

LibIdle ==
    /\ lb_p = LibInitParams /\ lb_full_mes = << >> /\ lb_full_mym = << >>
    /\ lb_open_trade = << >> /\ lb_trades = << >> /\ lb_decisions = << >>
    /\ lb_idx = 0 /\ lb_pc = "idle" /\ lb_last = LibNoRun

\* backtest() is entered: the full histories are taken and the runtime
\* collections reset
LibBacktestCall ==
    /\ engine = "lib"
    /\ lb_pc = "idle"
    /\ lb_full_mes' = lb_p.mes
    /\ lb_full_mym' = lb_p.mym
    /\ lb_p' = LibReplayStart(lb_p).p
    /\ lb_open_trade' = << >>
    /\ lb_trades' = << >>
    /\ lb_decisions' = << >>
    /\ lb_idx' = 0
    /\ lb_pc' = "loop"
    /\ UNCHANGED lb_last
    /\ UNCHANGED lbOthers

\* one iteration of the loop
LibBacktestBar ==
    /\ engine = "lib"
    /\ lb_pc = "loop"
    /\ lb_idx < LibNumCandles(lb_full_mes, lb_full_mym)
    /\ \E res \in {LibRun([lb_p EXCEPT !.mes = LibSlice(lb_full_mes, lb_idx),
                                       !.mym = LibSlice(lb_full_mym, lb_idx)])} :
          /\ lb_last' = res
          /\ \E r \in {LibReplayApply([p |-> lb_p, open_trade |-> lb_open_trade,
                                       trades |-> lb_trades, decisions |-> lb_decisions,
                                       raised |-> FALSE], res, lb_full_mes, lb_idx)} :
                /\ lb_p' = r.p
                /\ lb_open_trade' = r.open_trade
                /\ lb_trades' = r.trades
                /\ lb_decisions' = r.decisions
                /\ lb_pc' = IF r.raised THEN "raised" ELSE "loop"
    /\ lb_idx' = lb_idx + 1
    /\ UNCHANGED <<lb_full_mes, lb_full_mym>>
    /\ UNCHANGED lbOthers

\* the loop is over: backtest() returns (trades, decisions)
LibBacktestReturn ==
    /\ engine = "lib"
    /\ lb_pc = "loop"
    /\ lb_idx >= LibNumCandles(lb_full_mes, lb_full_mym)
    /\ lb_pc' = "returned"
    /\ UNCHANGED <<lb_full_mes, lb_full_mym, lb_p, lb_open_trade, lb_trades,
                   lb_decisions, lb_idx, lb_last>>
    /\ UNCHANGED lbOthers

\* ------------------------------------------------------------------------
\* Replay of Trader.run_backtest as a state machine: one step per iteration
\* of "for i in range(min_periods, len(historical_data))".
\* ------------------------------------------------------------------------
\* number of bars after the first min_periods bars in a replayed series
TrFree == 3

\* the first min_periods bars: a steady rise or a steady decline
TrWarmShape(rising, i) ==
    IF rising THEN <<9 + i, 11 + i, 9 + i, 10 + i>>
    ELSE <<51 - i, 51 - i, 49 - i, 50 - i>>

TrShapes(rising) ==
    IF rising
      THEN { <<28, 28, 22, 28>>, <<40, 40, 38, 40>>, <<28, 34, 28, 31>>, <<36, 41, 33, 41>> }
      ELSE { <<12, 15, 10, 12>>, <<30, 35, 29, 35>>, <<21, 22, 19, 22>>, <<37, 38, 32, 38>> }

TrDay(i, gap) == IF gap THEN GapDay(i, TrMinPeriods + 1) ELSE TradingDay(i)

TrShapeAt(rising, f, i) ==
    IF i <= TrMinPeriods THEN TrWarmShape(rising, i) ELSE f[i - TrMinPeriods]

TrSeriesOf(rising, f, gap) ==
    [i \in 1..(TrMinPeriods + TrFree) |->
        Bar(TrShapeAt(rising, f, i)[1], TrShapeAt(rising, f, i)[2],
            TrShapeAt(rising, f, i)[3], TrShapeAt(rising, f, i)[4], TrDay(i - 1, gap))]

\* the histories replayed, and one too short to be replayed
TrSeries ==
    UNION { { TrSeriesOf(rising, f, gap) : f \in [1..TrFree -> TrShapes(rising)] } :
              rising \in BOOLEAN, gap \in BOOLEAN }
    \cup { Prefix(TrSeriesOf(TRUE, [i \in 1..TrFree |-> <<28, 28, 22, 28>>], FALSE),
                  TrMinPeriods - 1) }

\* the MYM histories that go with the MES history s: loaded or not
TrMymFor(s) == { s, << >> }

\* a rising MES history and a declining MYM history of the same days
TrPairMes == TrSeriesOf(TRUE, [i \in 1..TrFree |-> <<36, 41, 33, 41>>], FALSE)

TrPairMym == TrSeriesOf(FALSE, [i \in 1..TrFree |-> <<21, 22, 19, 22>>], FALSE)

TrInit ==
    /\ \/ \E s \in TrSeries : \E y \in TrMymFor(s) :
             tr_p = [CsInitParams EXCEPT !.mes = s, !.mym = y]
       \/ tr_p = [CsInitParams EXCEPT !.mes = TrPairMes, !.mym = TrPairMym]
    /\ tr_data = << >>
    /\ tr_loc = TrInitLocals
    /\ tr_backtest = << >>
    /\ tr_i = 0
    /\ tr_pc = "idle"

TrIdle ==
    /\ tr_p = CsInitParams /\ tr_data = << >> /\ tr_loc = TrInitLocals
    /\ tr_backtest = << >> /\ tr_i = 0 /\ tr_pc = "idle"

\* run_backtest() is entered with enough data: self.backtest is cleared and
\* the loop starts at min_periods
TrBacktestCall ==
    /\ engine = "trader"
    /\ tr_pc = "idle"
    /\ Len(tr_p.mes) >= TrMinPeriods
    /\ tr_data' = tr_p.mes
    /\ tr_backtest' = << >>
    /\ tr_loc' = TrInitLocals
    /\ tr_i' = TrMinPeriods
    /\ tr_pc' = "loop"
    /\ UNCHANGED tr_p
    /\ UNCHANGED trOthers

\* run_backtest() is entered with no data or fewer than min_periods bars:
\* it returns at once (in the second case with self.backtest cleared)
TrBacktestTooShort ==
    /\ engine = "trader"
    /\ tr_pc = "idle"
    /\ Len(tr_p.mes) < TrMinPeriods
    /\ tr_data' = tr_p.mes
    /\ tr_backtest' = IF tr_p.mes = << >> THEN tr_backtest ELSE << >>
    /\ tr_pc' = "returned"
    /\ UNCHANGED <<tr_p, tr_loc, tr_i>>
    /\ UNCHANGED trOthers

\* one iteration of the loop
TrBacktestBar ==
    /\ engine = "trader"
    /\ tr_pc = "loop"
    /\ tr_i < Len(tr_data)
    /\ \E r \in {TrReplayBar([p |-> tr_p, loc |-> tr_loc, backtest |-> tr_backtest,
                              raised |-> FALSE], tr_data, tr_p.mym, tr_i)} :
          /\ tr_p' = r.p
          /\ tr_loc' = r.loc
          /\ tr_backtest' = r.backtest
          /\ tr_pc' = IF r.raised THEN "raised" ELSE "loop"
    /\ tr_i' = tr_i + 1
    /\ UNCHANGED tr_data
    /\ UNCHANGED trOthers

\* one iteration in which strategy.run() raises: the contracts hold the
\* subset, the account lists are cleared, and the exception leaves the loop
TrBacktestBarRaises ==
    /\ engine = "trader"
    /\ tr_pc = "loop"
    /\ tr_i < Len(tr_data)
    /\ tr_p' = TrParamsFor(tr_p, tr_data, tr_i)
    /\ tr_pc' = "raised"
    /\ UNCHANGED <<tr_data, tr_loc, tr_backtest, tr_i>>
    /\ UNCHANGED trOthers

\* the loop is over: run_backtest() returns self.backtest
TrBacktestReturn ==
    /\ engine = "trader"
    /\ tr_pc = "loop"
    /\ tr_i >= Len(tr_data)
    /\ tr_pc' = "returned"
    /\ UNCHANGED <<tr_p, tr_data, tr_loc, tr_backtest, tr_i>>
    /\ UNCHANGED trOthers
\* ------------------------------------------------------------------------
\* run() of ichimoku_base.py's IchimokuBase on refreshed params: the
\* strategy object is refreshed from the data manager and run, repeatedly.
\* ------------------------------------------------------------------------
\* number of bars after the first two in the data manager's series
RnFree == 3

\* number of run() calls made on one strategy object
RnMaxRuns == 2

RnMarkets ==
    { << Bar(17, 17, 15, 16, 0), Bar(16, 16, 14, 15, 1) >>
        \o [i \in 1..RnFree |-> Bar(f[i][1], f[i][2], f[i][3], f[i][4], 1 + i)] :
        f \in [1..RnFree -> IBShapes] }

\* a series with a bullish flip on its fifth bar and one more bar of the
\* same trend
RnTrendMarket ==
    << Bar(17, 17, 15, 16, 0), Bar(16, 16, 14, 15, 1), Bar(10, 12, 10, 11, 2),
       Bar(10, 12, 10, 11, 3), Bar(20, 26, 20, 26, 4), Bar(20, 22, 20, 22, 5) >>

\* data_manager.get_positions(): flat, long or short
RnPositions == { << >>, << 12 >>, << 0 - 12 >> }

RnInit ==
    /\ rn_market \in RnMarkets \cup {RnTrendMarket}
    /\ rn_data = << >>
    /\ rn_positions = << >>
    /\ rn_st = IBInitState
    /\ rn_pre = IBInitState
    /\ rn_action = <<"None">>
    /\ rn_runs = 0
    /\ rn_pc = "idle"

RnIdle ==
    /\ rn_market = << >> /\ rn_data = << >> /\ rn_positions = << >>
    /\ rn_st = IBInitState /\ rn_pre = IBInitState /\ rn_action = <<"None">>
    /\ rn_runs = 0 /\ rn_pc = "idle"

\* refresh_params(): the positions and the history as the data manager has
\* them now (any number of the series' bars: the contract may be a new one)
IBRefreshParams ==
    /\ engine = "ibrun"
    /\ rn_pc \in {"idle", "ran"}
    /\ rn_runs < RnMaxRuns
    /\ \E k \in 0..Len(rn_market) : rn_data' = Prefix(rn_market, k)
    /\ rn_positions' \in RnPositions
    /\ rn_pc' = "refreshed"
    /\ UNCHANGED <<rn_market, rn_st, rn_pre, rn_action, rn_runs>>
    /\ UNCHANGED rnOthers

\* run()
IBRunCall ==
    /\ engine = "ibrun"
    /\ rn_pc = "refreshed"
    /\ \E r \in {IBRun(rn_st, rn_data, rn_positions)} :
          /\ rn_st' = r.st
          /\ rn_action' = r.action
    /\ rn_pre' = rn_st
    /\ rn_runs' = rn_runs + 1
    /\ rn_pc' = "ran"
    /\ UNCHANGED <<rn_market, rn_data, rn_positions>>
    /\ UNCHANGED rnOthers

\* ------------------------------------------------------------------------
\* run() of lib/strategy.py's IchimokuBase on refreshed params
\* ------------------------------------------------------------------------
\* number of bars after the warm-up bars in the data manager's series
LrFree == 4

LrShapes ==
    { <<21, 26, 18, 25>>, <<23, 23, 22, 23>>, <<24, 25, 21, 22>>, <<12, 13, 9, 10>> }

LrShapeAt(f, i) == IF i <= LibWarm THEN LibWarmShape(i) ELSE f[i - LibWarm]

\* daily bars, Mondays to Fridays, the first one on a Monday
LrMarkets ==
    { [i \in 1..(LibWarm + LrFree) |->
          Bar(LrShapeAt(f, i)[1], LrShapeAt(f, i)[2], LrShapeAt(f, i)[3],
              LrShapeAt(f, i)[4], TradingDay(i - 1))] :
      f \in [1..LrFree -> LrShapes] }

\* a market that pulls back after a bearish flip and recovers inside the
\* re-entry window, with a high beyond the 38.2% level and a close under it
LrReentryBars ==
    << <<30, 30, 30, 30>>, <<14, 14, 13, 14>>, <<34, 35, 30, 31>>, <<33, 34, 33, 34>> >>

LrReentryShapeAt(i) ==
    IF i <= LibWarm THEN LibWarmShape(i)
    ELSE LrReentryBars[((i - LibWarm - 1) % Len(LrReentryBars)) + 1]

LrReentryMarket ==
    [i \in 1..(LibWarm + LrFree) |->
        Bar(LrReentryShapeAt(i)[1], LrReentryShapeAt(i)[2], LrReentryShapeAt(i)[3],
            LrReentryShapeAt(i)[4], TradingDay(i - 1))]

\* the history lengths a refresh is modelled for: none, or all but the
\* last bars of the warm-up and any number of bars after them
LrLengths(market) == {0} \cup ((LibWarm - 1)..Len(market))

\* data_manager.get_positions()
LrPositions == { << >>, << 12 >>, << 0 - 12 >> }

\* data_manager.get_completed_orders(): none, or the filled entry order
LrExecuted == { << >>, << [isActive |-> FALSE, isDone |-> TRUE] >> }

LrInit ==
    /\ lr_market \in LrMarkets \cup {LrReentryMarket}
    /\ lr_p = LibInitParams
    /\ lr_pre = LibInitParams
    /\ lr_action = "None"
    /\ lr_pc = "idle"

LrIdle ==
    /\ lr_market = << >> /\ lr_p = LibInitParams /\ lr_pre = LibInitParams
    /\ lr_action = "None" /\ lr_pc = "idle"

\* refresh_params(): the data of both contracts (MYM may lack the latest
\* bar), the executed orders and the positions
LibRefreshParams ==
    /\ engine = "librun"
    /\ lr_pc = "idle"
    /\ \E k \in LrLengths(lr_market) : \E j \in {k, Max2(k - 1, 0)} :
       \E pos \in LrPositions : \E ex \in LrExecuted :
          lr_p' = [lr_p EXCEPT !.mes = Prefix(lr_market, k), !.mym = Prefix(lr_market, j),
                               !.positions = pos, !.executed = ex]
    /\ lr_pc' = "refreshed"
    /\ UNCHANGED <<lr_market, lr_pre, lr_action>>
    /\ UNCHANGED lrOthers

\* run()
LibRunCall ==
    /\ engine = "librun"
    /\ lr_pc = "refreshed"
    /\ \E r \in {LibRun(lr_p)} :
          /\ lr_p' = r.p
          /\ lr_action' = r.action
    /\ lr_pre' = lr_p
    /\ lr_pc' = "ran"
    /\ UNCHANGED lr_market
    /\ UNCHANGED lrOthers

\* ------------------------------------------------------------------------
\* run() of components/strategy.py's IchimokuBase in Trader.run_strategy:
\* one pass of the "while True" loop up to the decision
\* ------------------------------------------------------------------------
CrInit ==
    /\ cr_market \in LrMarkets
    /\ cr_p = CsInitParams
    /\ cr_pre = CsInitParams
    /\ cr_action = "None"
    /\ cr_pc = "idle"
    /\ cr_runs = 0
    /\ cr_slept = FALSE

CrIdle ==
    /\ cr_market = << >> /\ cr_p = CsInitParams /\ cr_pre = CsInitParams
    /\ cr_action = "None" /\ cr_pc = "idle" /\ cr_runs = 0 /\ cr_slept = FALSE

\* "Populating strategy params...": the data of both contracts (MYM may
\* lack the latest bar), the executed orders and the positions
RunStrategyRefresh ==
    /\ engine = "csrun"
    /\ cr_pc = "idle"
    /\ \E k \in LrLengths(cr_market) : \E j \in {k, Max2(k - 1, 0)} :
       \E pos \in LrPositions : \E ex \in LrExecuted :
          cr_p' = [cr_p EXCEPT !.mes = Prefix(cr_market, k), !.mym = Prefix(cr_market, j),
                               !.positions = pos, !.executed = ex]
    /\ cr_pc' = "refreshed"
    /\ UNCHANGED <<cr_market, cr_pre, cr_action, cr_runs, cr_slept>>
    /\ UNCHANGED crOthers

\* self.decision = strategy.run()
RunStrategyRun ==
    /\ engine \in {"csrun", "live"}
    /\ cr_pc = "refreshed"
    /\ \E r \in {CsRun(cr_p)} :
          /\ cr_p' = r.p
          /\ cr_action' = r.action
    /\ cr_pre' = cr_p
    /\ cr_pc' = "ran"
    /\ cr_runs' = cr_runs + 1
    /\ cr_slept' = FALSE
    /\ UNCHANGED cr_market
    /\ UNCHANGED crOthers


\* ------------------------------------------------------------------------
\* Trader.run_strategy: the "while True" loop, pass after pass
\* ------------------------------------------------------------------------
\* how many passes of the loop call strategy.run()
CrMaxRuns == 2

\* the markets of the live loop: the warm-up bars and four more
LvTails ==
    { << <<21, 26, 18, 25>>, <<23, 23, 22, 23>>, <<24, 25, 21, 22>>, <<12, 13, 9, 10>> >>,
      << <<12, 13, 9, 10>>, <<12, 13, 9, 10>>, <<21, 26, 18, 25>>, <<23, 23, 22, 23>> >>,
      << <<12, 13, 9, 10>>, <<12, 13, 9, 10>>, <<12, 13, 9, 10>>, <<21, 26, 18, 25>> >> }

LvShapeAt(f, i) == IF i <= LibWarm THEN LibWarmShape(i) ELSE f[i - LibWarm]

LvMarkets ==
    { [i \in 1..(LibWarm + 4) |->
          Bar(LvShapeAt(f, i)[1], LvShapeAt(f, i)[2], LvShapeAt(f, i)[3],
              LvShapeAt(f, i)[4], TradingDay(i - 1))] : f \in LvTails }

\* how many bars the broker returns: any number at the first pass, the
\* same or one more a pass later
LvLengths(market, p) ==
    IF cr_runs = 0 THEN LrLengths(market)
    ELSE { k \in {Len(p.mes), Len(p.mes) + 1} : k = 0 \/ (k >= LibWarm - 1 /\ k <= Len(market)) }

\* the params after "Populating strategy params...": k bars of MES, j of MYM
CrPopulated(p, market, k, j, pos, ex) ==
    [p EXCEPT !.mes = Prefix(market, k), !.mym = Prefix(market, j),
              !.positions = pos, !.executed = ex]

LiveInit ==
    /\ cr_market \in LvMarkets
    /\ cr_p = CsInitParams
    /\ cr_pre = CsInitParams
    /\ cr_action = "None"
    /\ cr_pc = "idle"
    /\ cr_runs = 0
    /\ cr_slept = FALSE

\* top of the loop without a connection: sleep and continue
RunStrategyDisconnected ==
    /\ engine = "live"
    /\ cr_pc = "idle"
    /\ cr_slept' = TRUE
    /\ UNCHANGED <<cr_market, cr_p, cr_pre, cr_action, cr_pc, cr_runs>>
    /\ UNCHANGED crOthers

\* top of the loop with a connection: "Populating strategy params..."
RunStrategyPopulate ==
    /\ engine = "live"
    /\ cr_pc = "idle"
    /\ cr_runs < CrMaxRuns
    /\ \E k \in LvLengths(cr_market, cr_p) : \E j \in {k, Max2(k - 1, 0)} :
       \E pos \in LrPositions : \E ex \in LrExecuted :
          cr_p' = CrPopulated(cr_p, cr_market, k, j, pos, ex)
    /\ cr_pc' = "refreshed"
    /\ UNCHANGED <<cr_market, cr_pre, cr_action, cr_runs, cr_slept>>
    /\ UNCHANGED crOthers

\* the decision is EXIT: close_all_positions() and continue
RunStrategyExit ==
    /\ engine = "live"
    /\ cr_pc = "ran"
    /\ cr_action = "EXIT"
    /\ cr_pc' = "idle"
    /\ UNCHANGED <<cr_market, cr_p, cr_pre, cr_action, cr_runs, cr_slept>>
    /\ UNCHANGED crOthers

\* any other decision: create_order(decision), "Refreshing strategy
\* params..." if connected, then time.sleep(SLEEP_TIME)
RunStrategyOrder ==
    /\ engine = "live"
    /\ cr_pc = "ran"
    /\ cr_action # "EXIT"
    /\ LET built == CsCreateOrder(cr_p, cr_action).p
       IN  \/ cr_p' = built
           \/ \E pos \in LrPositions : \E ex \in LrExecuted :
                 cr_p' = [built EXCEPT !.positions = pos, !.executed = ex]
    /\ cr_slept' = TRUE
    /\ cr_pc' = "idle"
    /\ UNCHANGED <<cr_market, cr_pre, cr_action, cr_runs>>
    /\ UNCHANGED crOthers
\* ------------------------------------------------------------------------
\* The order builders as functions of what they read: the contracts' data,
\* the latest PSAR value, number_of_contracts and psar_difference.
\* ------------------------------------------------------------------------
\* the largest number_of_contracts tried
OdMaxQty == 13

OdBuilders == { "lib", "cs", "tardio" }

OdActions == { "LONG", "SHORT", "EXIT", "STAY" }

OdData == { << >>, << Bar(20, 21, 19, 20, 0) >> }

\* 10.0, 17.135 and 2000.0
OdPrices == { P(10), 17 * Scale + 135, P(2000) }

\* psar_difference: lib's run() always stores one with the PSAR series,
\* components' run() only when it enters
OdDifferences(builder) ==
    IF builder = "lib" THEN { 0, 2 * Scale + 500, P(3) }
    ELSE { NoneVal, 0, 2 * Scale + 500, P(3) }

OdInit ==
    /\ od_builder \in OdBuilders
    /\ od_action \in OdActions
    /\ od_data \in OdData
    /\ od_qty \in 0..OdMaxQty
    /\ od_price \in OdPrices
    /\ od_difference \in OdDifferences(od_builder)
    /\ od_plan = << >>
    /\ od_pc = "idle"

OdIdle ==
    /\ od_builder = "" /\ od_action = "" /\ od_data = << >> /\ od_qty = 0
    /\ od_price = 0 /\ od_difference = 0 /\ od_plan = << >> /\ od_pc = "idle"

\* the PSAR series run() has stored: its latest value is od_price
OdPsar == [i \in 1..Len(od_data) |-> od_price]

\* the jump: psar_difference, 0 if there is none
OdJump == IF od_difference = NoneVal THEN 0 ELSE od_difference

\* lib/strategy.py: IchimokuBase.create_orders(action)
LibCreateOrdersCall ==
    /\ engine = "orders"
    /\ od_pc = "idle"
    /\ od_builder = "lib"
    /\ od_plan' = LibCreateOrders([LibInitParams EXCEPT
                      !.mes = od_data, !.mym = od_data, !.psar_set = TRUE,
                      !.psar_mes = OdPsar, !.psar_mym = OdPsar,
                      !.number_of_contracts = od_qty,
                      !.psar_difference = od_difference], od_action)
    /\ od_pc' = "built"
    /\ UNCHANGED <<od_builder, od_action, od_data, od_qty, od_price, od_difference>>
    /\ UNCHANGED odOthers

\* components/strategy.py: IchimokuBase.create_order(action)
CsCreateOrderCall ==
    /\ engine = "orders"
    /\ od_pc = "idle"
    /\ od_builder = "cs"
    /\ od_plan' = CsCreateOrder([CsInitParams EXCEPT
                      !.mes = od_data, !.mym = od_data, !.psar_set = TRUE,
                      !.psar_mes = OdPsar, !.psar_mym = OdPsar,
                      !.number_of_contracts = od_qty,
                      !.psar_difference = od_difference], od_action).orders
    /\ od_pc' = "built"
    /\ UNCHANGED <<od_builder, od_action, od_data, od_qty, od_price, od_difference>>
    /\ UNCHANGED odOthers

\* lib/strategy.py: Tardio550Strategy.create_orders(action), with
\* limit_price and the fib levels as run() sets them from the jump
TardioCreateOrdersCall ==
    /\ engine = "orders"
    /\ od_pc = "idle"
    /\ od_builder = "tardio"
    /\ od_plan' = TardioCreateOrders(od_data, od_qty, od_price,
                                     od_price + Mul(OdJump, 382),
                                     od_price + Mul(OdJump, 618), od_action)
    /\ od_pc' = "built"
    /\ UNCHANGED <<od_builder, od_action, od_data, od_qty, od_price, od_difference>>
    /\ UNCHANGED odOthers

\* ------------------------------------------------------------------------
\* The two PSAR functions on short series of bars from a small price grid.
\* ------------------------------------------------------------------------
\* the longest series tried
PsLen == 3

PsLevels == { 10, 11, 12 }

PsBarSet ==
    { Bar(o, h, l, c, 0) : o \in PsLevels, h \in PsLevels, l \in PsLevels, c \in PsLevels }

\* a bar's low and high bound its open and close
PsWellFormed(b) ==
    /\ b.low <= b.open /\ b.open <= b.high
    /\ b.low <= b.close /\ b.close <= b.high

PsBars == { b \in PsBarSet : PsWellFormed(b) }

\* the series of 0 to len bars, on consecutive days
PsSeries(len) ==
    UNION { { [i \in 1..n |-> [f[i] EXCEPT !.day = i - 1]] : f \in [1..n -> PsBars] } :
            n \in 0..len }

PsInit ==
    /\ ps_bars \in PsSeries(PsLen)
    /\ ps_ib = << >>
    /\ ps_lib = << >>
    /\ ps_ib_out = "none"
    /\ ps_lib_out = "none"

PsIdle ==
    /\ ps_bars = << >> /\ ps_ib = << >> /\ ps_lib = << >>
    /\ ps_ib_out = "none" /\ ps_lib_out = "none"

\* how _calculate_psar(high, low) ends: "ep = high[0]" raises on empty lists
IBPsarOutcome(data) == IF data = << >> THEN "IndexError" ELSE "series"

\* how _calculate_parabolic_sar(data) ends: an empty array for no data, an
\* array of the length of the data otherwise
LibPsarOutcome(data) == "series"

\* ichimoku_base.py: _calculate_psar(highs, lows)
IBCalculatePsarCall ==
    /\ engine = "psar"
    /\ ps_ib_out = "none"
    /\ ps_ib_out' = IBPsarOutcome(ps_bars)
    /\ ps_ib' = IF ps_bars = << >> THEN << >> ELSE IBPsarTrace(ps_bars)
    /\ UNCHANGED <<ps_bars, ps_lib, ps_lib_out>>
    /\ UNCHANGED psOthers

\* lib/strategy.py: _calculate_parabolic_sar(data)
LibCalculateParabolicSarCall ==
    /\ engine = "psar"
    /\ ps_lib_out = "none"
    /\ ps_lib_out' = LibPsarOutcome(ps_bars)
    /\ ps_lib' = IF ps_bars = << >> THEN << >> ELSE LibPsarTrace(ps_bars)
    /\ UNCHANGED <<ps_bars, ps_ib, ps_ib_out>>
    /\ UNCHANGED psOthers

\* ------------------------------------------------------------------------
\* ConnectionManager (connection_manager.py; Trader carries the same code):
\* reconnect() and connect() as the monitor thread and a thread in a
\* data-access call execute them, statement by statement.  No lock is
\* taken anywhere, so the statements of the two threads interleave.
\* ------------------------------------------------------------------------
MAX_RECONNECT_ATTEMPTS == 5

\* max_attempts of connect()
CnMaxAttempts == 3

\* the number of reconnect() calls made in a behaviour
CnMaxCalls == 7

CnThreads == { "monitor", "trading" }

CnInit ==
    /\ cn_connected \in BOOLEAN
    /\ cn_attempts = 0
    /\ cn_pc = [t \in CnThreads |-> "idle"]
    /\ cn_tmp = [t \in CnThreads |-> 0]
    /\ cn_try = [t \in CnThreads |-> 0]
    /\ cn_res = [t \in CnThreads |-> "none"]
    /\ cn_calls = 0
    /\ cn_connects = 0

CnIdle ==
    /\ cn_connected = FALSE /\ cn_attempts = 0 /\ cn_pc = << >> /\ cn_tmp = << >>
    /\ cn_try = << >> /\ cn_res = << >> /\ cn_calls = 0 /\ cn_connects = 0

\* the broker drops the connection
CnDrop ==
    /\ engine = "conn"
    /\ cn_connected
    /\ cn_connected' = FALSE
    /\ UNCHANGED <<cn_attempts, cn_pc, cn_tmp, cn_try, cn_res, cn_calls, cn_connects>>
    /\ UNCHANGED cnOthers

\* _connection_monitor_worker finds the connection up: the counter is reset
CnMonitorReset ==
    /\ engine = "conn"
    /\ cn_pc["monitor"] = "idle"
    /\ cn_connected
    /\ cn_attempts > 0
    /\ cn_attempts' = 0
    /\ UNCHANGED <<cn_connected, cn_pc, cn_tmp, cn_try, cn_res, cn_calls, cn_connects>>
    /\ UNCHANGED cnOthers

\* reconnect() is called, by the monitor when it finds the connection down,
\* by get_historical_data when it finds it down or when its request has
\* raised; "self.reconnect_attempts += 1" loads the counter
CnReconnectLoad(t) ==
    /\ engine = "conn"
    /\ cn_pc[t] = "idle"
    /\ cn_calls < CnMaxCalls
    /\ (t = "monitor") => ~cn_connected
    /\ cn_tmp' = [cn_tmp EXCEPT ![t] = cn_attempts]
    /\ cn_pc' = [cn_pc EXCEPT ![t] = "store"]
    /\ cn_calls' = cn_calls + 1
    /\ UNCHANGED <<cn_connected, cn_attempts, cn_try, cn_res, cn_connects>>
    /\ UNCHANGED cnOthers

\* "self.reconnect_attempts += 1" stores the sum
CnReconnectStore(t) ==
    /\ engine = "conn"
    /\ cn_pc[t] = "store"
    /\ cn_attempts' = cn_tmp[t] + 1
    /\ cn_tmp' = [cn_tmp EXCEPT ![t] = 0]
    /\ cn_pc' = [cn_pc EXCEPT ![t] = "check"]
    /\ UNCHANGED <<cn_connected, cn_try, cn_res, cn_calls, cn_connects>>
    /\ UNCHANGED cnOthers

\* "if self.reconnect_attempts > MAX_RECONNECT_ATTEMPTS: return False"
CnReconnectCheck(t) ==
    /\ engine = "conn"
    /\ cn_pc[t] = "check"
    /\ cn_pc' = [cn_pc EXCEPT ![t] = IF cn_attempts > MAX_RECONNECT_ATTEMPTS
                                       THEN "idle" ELSE "disconnect"]
    /\ UNCHANGED <<cn_connected, cn_attempts, cn_tmp, cn_try, cn_res, cn_calls, cn_connects>>
    /\ UNCHANGED cnOthers

\* the clean disconnect if still connected, time.sleep(2), and connect() is
\* entered
CnReconnectDisconnect(t) ==
    /\ engine = "conn"
    /\ cn_pc[t] = "disconnect"
    /\ cn_connected' = FALSE
    /\ cn_try' = [cn_try EXCEPT ![t] = 0]
    /\ cn_connects' = cn_connects + 1
    /\ cn_pc' = [cn_pc EXCEPT ![t] = "call"]
    /\ UNCHANGED <<cn_attempts, cn_tmp, cn_res, cn_calls>>
    /\ UNCHANGED cnOthers

\* "await self.ib.connectAsync(...)": it raises, or it returns with the
\* client connected, or it returns and the client is not connected
CnConnectCall(t) ==
    /\ engine = "conn"
    /\ cn_pc[t] = "call"
    /\ \/ /\ cn_res' = [cn_res EXCEPT ![t] = "raised"]
          /\ UNCHANGED cn_connected
          /\ UNCHANGED cn_connects
       \/ /\ cn_res' = [cn_res EXCEPT ![t] = "returned"]
          /\ cn_connected' \in {TRUE, cn_connected}
          /\ cn_connects' = IF cn_connected' /\ ~cn_connected THEN 0 ELSE cn_connects
    /\ cn_pc' = [cn_pc EXCEPT ![t] = "called"]
    /\ UNCHANGED <<cn_attempts, cn_tmp, cn_try, cn_calls>>
    /\ UNCHANGED cnOthers

\* the rest of the loop body of _connect(): "if self.ib.isConnected():
\* return True", or the except clause; and what connect() and reconnect()
\* do when _connect() returns False
CnConnectCheck(t) ==
    /\ engine = "conn"
    /\ cn_pc[t] = "called"
    /\ IF cn_res[t] = "raised"
         THEN /\ IF cn_try[t] + 1 < CnMaxAttempts
                   THEN /\ cn_try' = [cn_try EXCEPT ![t] = cn_try[t] + 1]
                        /\ cn_pc' = [cn_pc EXCEPT ![t] = "call"]
                   ELSE /\ cn_try' = [cn_try EXCEPT ![t] = 0]
                        /\ cn_pc' = [cn_pc EXCEPT ![t] = "idle"]
              /\ UNCHANGED cn_attempts
         ELSE IF cn_connected
           THEN /\ cn_attempts' = 0
                /\ cn_try' = [cn_try EXCEPT ![t] = 0]
                /\ cn_pc' = [cn_pc EXCEPT ![t] = "reset"]
           ELSE /\ cn_pc' = [cn_pc EXCEPT ![t] = "call"]
                /\ UNCHANGED <<cn_attempts, cn_try>>
    /\ cn_res' = [cn_res EXCEPT ![t] = "none"]
    /\ UNCHANGED <<cn_connected, cn_tmp, cn_calls, cn_connects>>
    /\ UNCHANGED cnOthers

\* connect() has returned True: "self.reconnect_attempts = 0; return True"
CnReconnectReset(t) ==
    /\ engine = "conn"
    /\ cn_pc[t] = "reset"
    /\ cn_attempts' = 0
    /\ cn_pc' = [cn_pc EXCEPT ![t] = "idle"]
    /\ UNCHANGED <<cn_connected, cn_tmp, cn_try, cn_res, cn_calls, cn_connects>>
    /\ UNCHANGED cnOthers

\* a step of thread t inside reconnect()
CnThreadStep(t) ==
    \/ CnReconnectStore(t) \/ CnReconnectCheck(t) \/ CnReconnectDisconnect(t)
    \/ CnConnectCall(t) \/ CnConnectCheck(t) \/ CnReconnectReset(t)

CnNext ==
    \/ CnDrop \/ CnMonitorReset
    \/ \E t \in CnThreads : CnReconnectLoad(t) \/ CnThreadStep(t)
\* ------------------------------------------------------------------------
\* Replay of TTSStrategy.backtest as a state machine: one step per evaluated
\* iteration of "for idx in range(len(mbt_full))".
\* ------------------------------------------------------------------------
\* number of weekly bars after the first 20 in a replayed series
TtsFree == 4

\* the bars after the first 20: a rising week, a falling week, a week that
\* closes where it opened, and a week that opens lower and rises
TtsShapes ==
    { <<10, 12, 10, 12>>, <<12, 12, 10, 10>>, <<10, 11, 9, 10>>, <<6, 8, 6, 8>> }

TtsSeries ==
    { [i \in 1..(TtsWindow + TtsFree) |->
          IF i <= TtsWindow THEN Bar(10, 10, 10, 10, 7 * (i - 1))
          ELSE Bar(f[i - TtsWindow][1], f[i - TtsWindow][2], f[i - TtsWindow][3],
                   f[i - TtsWindow][4], 7 * (i - 1))] :
        f \in [1..TtsFree -> TtsShapes] }

TtsInit ==
    /\ tt_data \in TtsSeries
    /\ tt_full = << >>
    /\ tt_tts = << >>
    /\ tt_positions = << >>
    /\ tt_decisions = << >>
    /\ tt_idx = 0
    /\ tt_pc = "idle"

TtsIdle ==
    /\ tt_data = << >> /\ tt_full = << >> /\ tt_tts = << >> /\ tt_positions = << >>
    /\ tt_decisions = << >> /\ tt_idx = 0 /\ tt_pc = "idle"

\* backtest() is entered: the params lists and the locals are reset; the
\* iterations before index 20 do nothing
TtsBacktestCall ==
    /\ engine = "tts"
    /\ tt_pc = "idle"
    /\ tt_full' = tt_data
    /\ tt_positions' = << >>
    /\ tt_decisions' = << >>
    /\ tt_idx' = TtsWindow
    /\ tt_pc' = "loop"
    /\ UNCHANGED <<tt_data, tt_tts>>
    /\ UNCHANGED ttOthers

\* one evaluated iteration: run() on the truncated history, then the books
TtsBacktestBar ==
    /\ engine = "tts"
    /\ tt_pc = "loop"
    /\ tt_idx < Len(tt_full)
    /\ tt_data' = Prefix(tt_full, tt_idx + 1)
    /\ \E r \in {TtsRun(tt_tts, Prefix(tt_full, tt_idx + 1), tt_positions)} :
          /\ tt_tts' = r.tts
          /\ tt_decisions' = Append(tt_decisions, r.action)
          /\ tt_positions' = TtsApply(tt_positions, r.action)
    /\ tt_idx' = tt_idx + 1
    /\ UNCHANGED <<tt_full, tt_pc>>
    /\ UNCHANGED ttOthers

\* the loop is over: backtest() returns (trades, decisions)
TtsBacktestReturn ==
    /\ engine = "tts"
    /\ tt_pc = "loop"
    /\ tt_idx >= Len(tt_full)
    /\ tt_pc' = "returned"
    /\ UNCHANGED <<tt_full, tt_data, tt_tts, tt_positions, tt_decisions, tt_idx>>
    /\ UNCHANGED ttOthers

TtsNext == TtsBacktestCall \/ TtsBacktestBar \/ TtsBacktestReturn
\* ========================================================================
\* Specifications
\* ========================================================================
IBNext == IBBacktestCall \/ IBBacktestBar \/ IBBacktestReturn

LibNext == LibBacktestCall \/ LibBacktestBar \/ LibBacktestReturn

TrNext ==
    \/ TrBacktestCall \/ TrBacktestTooShort \/ TrBacktestBar \/ TrBacktestBarRaises
    \/ TrBacktestReturn

RnNext == IBRefreshParams \/ IBRunCall

LrNext == LibRefreshParams \/ LibRunCall

CrNext == RunStrategyRefresh \/ RunStrategyRun

LiveNext ==
    \/ RunStrategyDisconnected \/ RunStrategyPopulate \/ RunStrategyRun
    \/ RunStrategyExit \/ RunStrategyOrder

OdNext == LibCreateOrdersCall \/ CsCreateOrderCall \/ TardioCreateOrdersCall

PsNext == IBCalculatePsarCall \/ LibCalculateParabolicSarCall

InitIB ==
    /\ engine = "ib" /\ IBInit
    /\ LibIdle /\ TrIdle /\ RnIdle /\ LrIdle /\ CrIdle /\ OdIdle /\ PsIdle /\ CnIdle /\ TtsIdle

InitLib ==
    /\ engine = "lib" /\ LibInit
    /\ IBIdle /\ TrIdle /\ RnIdle /\ LrIdle /\ CrIdle /\ OdIdle /\ PsIdle /\ CnIdle /\ TtsIdle

InitTrader ==
    /\ engine = "trader" /\ TrInit
    /\ IBIdle /\ LibIdle /\ RnIdle /\ LrIdle /\ CrIdle /\ OdIdle /\ PsIdle /\ CnIdle /\ TtsIdle

InitIBRun ==
    /\ engine = "ibrun" /\ RnInit
    /\ IBIdle /\ LibIdle /\ TrIdle /\ LrIdle /\ CrIdle /\ OdIdle /\ PsIdle /\ CnIdle /\ TtsIdle

InitLibRun ==
    /\ engine = "librun" /\ LrInit
    /\ IBIdle /\ LibIdle /\ TrIdle /\ RnIdle /\ CrIdle /\ OdIdle /\ PsIdle /\ CnIdle /\ TtsIdle

InitCsRun ==
    /\ engine = "csrun" /\ CrInit
    /\ IBIdle /\ LibIdle /\ TrIdle /\ RnIdle /\ LrIdle /\ OdIdle /\ PsIdle /\ CnIdle /\ TtsIdle

InitLive ==
    /\ engine = "live" /\ LiveInit
    /\ IBIdle /\ LibIdle /\ TrIdle /\ RnIdle /\ LrIdle /\ OdIdle /\ PsIdle /\ CnIdle /\ TtsIdle

InitOrders ==
    /\ engine = "orders" /\ OdInit
    /\ IBIdle /\ LibIdle /\ TrIdle /\ RnIdle /\ LrIdle /\ CrIdle /\ PsIdle /\ CnIdle /\ TtsIdle

InitPsar ==
    /\ engine = "psar" /\ PsInit
    /\ IBIdle /\ LibIdle /\ TrIdle /\ RnIdle /\ LrIdle /\ CrIdle /\ OdIdle /\ CnIdle /\ TtsIdle

InitConn ==
    /\ engine = "conn" /\ CnInit
    /\ IBIdle /\ LibIdle /\ TrIdle /\ RnIdle /\ LrIdle /\ CrIdle /\ OdIdle /\ PsIdle /\ TtsIdle

InitTts ==
    /\ engine = "tts" /\ TtsInit
    /\ IBIdle /\ LibIdle /\ TrIdle /\ RnIdle /\ LrIdle /\ CrIdle /\ OdIdle /\ PsIdle /\ CnIdle

\* replays of ichimoku_base.py's backtest
SpecIB == InitIB /\ [][IBNext]_vars

\* replays of any of the three backtests
SpecBacktests == (InitIB \/ InitLib \/ InitTrader) /\ [][IBNext \/ LibNext \/ TrNext]_vars

\* run() of any of the three IchimokuBase classes on refreshed params
SpecRuns == (InitIBRun \/ InitLibRun \/ InitCsRun) /\ [][RnNext \/ LrNext \/ CrNext]_vars

\* the live loop of Trader.run_strategy
SpecLive == InitLive /\ [][LiveNext]_vars

\* the order builders
SpecOrders == InitOrders /\ [][OdNext]_vars

\* the PSAR functions
SpecPsar == InitPsar /\ [][PsNext]_vars

\* the connection manager with its monitor thread and a data-access thread
SpecConn == InitConn /\ [][CnNext]_vars

\* the same, where every thread that can take a step eventually takes one
SpecConnFair == SpecConn /\ \A t \in CnThreads : WF_vars(CnThreadStep(t))

\* replays of TTSStrategy.backtest
SpecTts == InitTts /\ [][TtsNext]_vars

Init ==
    \/ InitIB \/ InitLib \/ InitTrader \/ InitIBRun \/ InitLibRun \/ InitCsRun
    \/ InitLive \/ InitOrders \/ InitPsar \/ InitConn \/ InitTts

Next ==
    \/ IBNext \/ LibNext \/ TrNext \/ RnNext \/ LrNext \/ CrNext \/ LiveNext
    \/ OdNext \/ PsNext \/ CnNext \/ TtsNext

Spec == Init /\ [][Next]_vars

\* ------------------------------------------------------------------------
\* Properties of IchimokuBase.backtest (ichimoku_base.py)
\* ------------------------------------------------------------------------
QtySum(lots) == SumSeq([i \in 1..Len(lots) |-> lots[i].qty])

\* the lots of open_batches that have not been closed
StillOpen(lots) == SelectSeq(lots, LAMBDA t : t.exit_reason = "None")

HasDecision(decisions, d) == \E i \in 1..Len(decisions) : decisions[i].decision = d

\* C1: lot conservation.  At every point of a replay, and after it has
\* returned, the quantities of the still-open lots plus the quantities of
\* the closed TradeSnapshots add up to the quantity open_batch has opened.
C1_LotConservation ==
    ib_pc \in {"loop", "returned"} =>
        QtySum(StillOpen(ib_open)) + QtySum(ib_completed) = ib_opened

\* a replay in which a lot was split by a partial exit, an add-on was
\* opened, and lots are still open
C1_Witness ==
    /\ ib_pc = "loop"
    /\ \E i \in 1..Len(ib_completed) : ib_completed[i].exit_reason = "TP1"
    /\ \E i \in 1..Len(ib_decisions) : StartsWith(ib_decisions[i].decision, <<"ADD">>)
    /\ ib_open # << >>
    /\ ib_opened > 12

\* the same at the end of the run
C1_WitnessEnd ==
    /\ ib_pc = "returned"
    /\ \E i \in 1..Len(ib_completed) : ib_completed[i].exit_reason = "END_OF_DATA"
    /\ \E i \in 1..Len(ib_completed) : ib_completed[i].exit_reason = "TP1"

\* C10: position invariant.  After every replayed bar params.positions holds
\* one entry per open lot with that lot's signed quantity, the open
\* quantities add up to the absolute net position, and has_open_position()
\* is true exactly when there is an open lot.
C10_PositionInvariant ==
    ib_pc = "loop" =>
        /\ ib_positions = IBPositionsOf(ib_open)
        /\ QtySum(ib_open) = Abs(SumSeq(ib_positions))
        /\ HasOpenPosition(ib_positions) <=> (ib_open # << >>)

\* two lots are open, the first one already reduced by a partial exit
C10_Witness ==
    /\ ib_pc = "loop"
    /\ Len(ib_open) >= 2
    /\ ib_open[1].qty = 6
    /\ \E i \in 1..Len(ib_completed) : ib_completed[i].exit_reason = "TP1"

\* C4: determinism.  A further backtest() on the same strategy object, over
\* the same bars, returns the decisions and the trades of the first call.
C4_Determinism ==
    \A i \in 1..Len(ib_returned) : ib_returned[i] = ib_returned[1]

\* the second call has returned; the run had entries, a partial exit and an
\* exit, and the first call left a trend state behind it
C4_Witness ==
    /\ Len(ib_returned) = 2
    /\ HasDecision(ib_returned[2].decisions, <<"PARTIAL", "EXIT", "6">>)
    /\ HasDecision(ib_returned[2].decisions, <<"EXIT">>)
    /\ ib_returned[2].trades # << >>
    /\ ib_st.tp1_hit

\* the replay step has recorded a partial exit
PartialExitStep ==
    /\ ib_pc = "loop"
    /\ Len(ib_decisions') = Len(ib_decisions) + 1
    /\ StartsWith(ib_decisions'[Len(ib_decisions')].decision, <<"PARTIAL">>)

\* C16 as stated: the partial exit at TP1 closes half of the quantity that
\* is open when TP1 is reached, and sets tp1_hit, whatever quantity the
\* entries and add-ons have opened.
C16_PartialExitHalf ==
    [][ PartialExitStep =>
          /\ 2 * (QtySum(ib_open) - QtySum(ib_open')) = QtySum(ib_open)
          /\ ib_st'.tp1_hit ]_vars

\* the last replayed bar opened a position on a flip
EntryRecorded ==
    /\ ib_pc = "loop"
    /\ ib_decisions # << >>
    /\ ib_decisions[Len(ib_decisions)].decision \in { <<"LONG">>, <<"SHORT">> }
    /\ ib_open # << >>

\* C17 as stated: on entry the take-profit levels are the entry price plus
\* (Long) or minus (Short) 0.382 and 0.618 of the jump |prev_psar - first_psar|
\* of the flip.
C17_TpLevelsOnEntry ==
    EntryRecorded =>
        LET e    == ib_open[Len(ib_open)].entry_price
            jump == Abs(ib_st.last_prev_psar - ib_st.first_psar)
            sgn  == IF ib_decisions[Len(ib_decisions)].decision = <<"LONG">> THEN 1 ELSE 0 - 1
        IN  /\ ib_st.tp1_level = e + sgn * Mul(jump, 382)
            /\ ib_st.tp2_level = e + sgn * Mul(jump, 618)

\* the last replayed bar recorded an add-on
AddOnRecorded ==
    /\ ib_pc = "loop"
    /\ ib_decisions # << >>
    /\ StartsWith(ib_decisions[Len(ib_decisions)].decision, <<"ADD">>)

\* C18 as stated: a re-entry / add-on is emitted only when the position is
\* flat (its lot is then the only open one) and the bar is the second, third
\* or fourth of the trend.
C18_AddOnOnlyWhenFlat ==
    AddOnRecorded =>
        /\ Len(ib_open) = 1
        /\ 2 <= ib_st.candle_count /\ ib_st.candle_count <= 4

\* C20 as stated: an entry is filled at a bar only if its limit price is
\* reached by the bar, low <= price for the buy limit of a Long entry and
\* high >= price for the sell limit of a Short entry; otherwise no position
\* is opened on that bar.
C20_EntryFillInRange ==
    EntryRecorded =>
        LET bar == ib_full[ib_idx]
            lot == ib_open[Len(ib_open)]
        IN  /\ lot.entry_date = bar.day
            /\ lot.side = "LONG" => bar.low <= lot.entry_price
            /\ lot.side = "SHORT" => bar.high >= lot.entry_price

\* the highest high / lowest low of the bars a..b of a series
HighestHigh(data, a, b) ==
    CHOOSE h \in { data[j].high : j \in a..b } : \A j \in a..b : data[j].high <= h

LowestLow(data, a, b) ==
    CHOOSE l \in { data[j].low : j \in a..b } : \A j \in a..b : l <= data[j].low

\* bar j (1-based, j >= 2) of the series has a PSAR sign other than bar j-1
SignFlipAt(data, psar, j) ==
    IBSign(psar[j], data[j].close) # IBSign(psar[j - 1], data[j - 1].close)

\* the first replay of a strategy object has seen a flip
FirstReplayWithTrend ==
    /\ ib_pc = "loop"
    /\ ib_idx > IBWarmup
    /\ ib_returned = << >>
    /\ ib_st.trend_direction # "None"

\* after bar i the trend state is that of the latest flip bar f at or
\* before i: candle_count = i - f + 1 (1 on the flip bar, one more on every
\* later bar), last_prev_psar = psar[f-1], first_psar = psar[f], and the
\* extremes are the highest high and the lowest low of the bars f..i
TrendStateOfLatestFlip ==
    LET n    == ib_idx
        data == Prefix(ib_full, n)
        psar == IBCalculatePsar(data)
        f    == ib_st.trend_start_idx + 1
    IN  /\ 2 <= f /\ f <= n
        /\ SignFlipAt(data, psar, f)
        /\ \A j \in (f + 1)..n : ~SignFlipAt(data, psar, j)
        /\ ib_st.candle_count = n - f + 1
        /\ ib_st.last_prev_psar = psar[f - 1]
        /\ ib_st.first_psar = psar[f]
        /\ ib_st.max_high_since_start = HighestHigh(data, f, n)
        /\ ib_st.min_low_since_start = LowestLow(data, f, n)

IBSideOfSign(data) ==
    IF IBSign(IBCalculatePsar(data)[Len(data)], data[Len(data)].close) = 0 - 1
      THEN "long" ELSE "short"

\* the trend_direction a lot of the given side belongs to
IBTrendOf(side) == IF side = "LONG" THEN "long" ELSE "short"

\* C37 as stated: no position against the trend.  After every replayed bar
\* all open lots have the same side, that side is trend_direction, and it is
\* the side of the PSAR sign of the bar: no lot survives a flip against it.
C37_LotsFollowTrend ==
    (ib_pc = "loop" /\ ib_idx > 0) =>
        \A i \in 1..Len(ib_open) :
            /\ ib_open[i].side = ib_open[1].side
            /\ IBTrendOf(ib_open[i].side) = ib_st.trend_direction
            /\ IBTrendOf(ib_open[i].side) = IBSideOfSign(ib_data)

\* a position is closed on the bar of a flip against it
C37_ClosedByFlip ==
    /\ ib_pc = "loop" /\ ib_idx > IBWarmup
    /\ ib_open = << >>
    /\ \E k \in 1..Len(ib_completed) :
          /\ ib_completed[k].exit_reason = "EXIT_SIGNAL"
          /\ ib_completed[k].exit_date = ib_data[Len(ib_data)].day
          /\ IBTrendOf(ib_completed[k].side) # ib_st.trend_direction


\* the decisions of the bars of the current trend before the last replayed
\* bar: the trend has lasted candle_count bars
IBEarlierInTrend(decisions, st) ==
    SubSeq(decisions, Max2(1, Len(decisions) - st.candle_count + 2), Len(decisions))

\* C38 as stated: the partial exit.  PARTIAL_EXIT_6 is issued at most once
\* between two flips; when it is issued at least 12 contracts are open,
\* exactly 6 are closed and a positive quantity stays open; no lot ever has
\* a negative quantity.
C38_OnePartialExit ==
    [][ /\ PartialExitStep =>
              /\ QtySum(ib_open) >= 12
              /\ QtySum(ib_open') = QtySum(ib_open) - 6
              /\ QtySum(ib_open') > 0
              /\ \A k \in 1..Len(IBEarlierInTrend(ib_decisions, ib_st')) :
                    ~StartsWith(IBEarlierInTrend(ib_decisions, ib_st')[k].decision,
                                <<"PARTIAL", "EXIT">>)
        /\ \A i \in 1..Len(ib_open') : ib_open'[i].qty > 0 ]_vars

\* a partial exit was issued with more than 12 contracts open, and the trend
\* went on for a bar after it
C38_AfterPartialExit ==
    /\ ib_pc = "loop"
    /\ Len(ib_decisions) >= 2
    /\ StartsWith(ib_decisions[Len(ib_decisions) - 1].decision, <<"PARTIAL", "EXIT">>)
    /\ ib_st.candle_count >= 3
    /\ ib_open # << >>
    /\ QtySum(ib_open) >= 12

\* ------------------------------------------------------------------------
\* Properties of the three backtests
\* ------------------------------------------------------------------------
\* the decisions of ichimoku_base.py's replay over every shorter series
IBNoLookAhead ==
    ib_pc = "returned" =>
        \A m \in 1..Len(ib_full) :
            IsPrefixOf(IBBacktestDecisions(IBInitState, Prefix(ib_full, m)), ib_decisions)

\* lib/strategy.py: the decisions recorded so far are those of a replay, by
\* a new strategy object, of the series cut off after the latest bar
LibNoLookAhead ==
    lb_pc \in {"loop", "returned"} =>
        lb_decisions =
            LibBacktestDecisions([LibInitParams EXCEPT !.mes = Prefix(lb_full_mes, lb_idx),
                                                       !.mym = Prefix(lb_full_mym, lb_idx)],
                                 Prefix(lb_full_mes, lb_idx), Prefix(lb_full_mym, lb_idx))

\* Trader: the same for the rows of run_backtest
TrNoLookAhead ==
    tr_pc \in {"loop", "returned"} =>
        tr_backtest =
            TrBacktestRows([CsInitParams EXCEPT !.mes = Prefix(tr_data, tr_i),
                                                !.mym = Prefix(tr_p.mym, tr_i)])

\* C3: no look-ahead.  In each of the three replays the decision recorded
\* for bar i is the one recorded when the series ends at bar i: the
\* decisions of a replay begin with (ichimoku_base.py), or up to the latest
\* bar are (lib/strategy.py, Trader), the decisions of a replay of the
\* series cut off there.
C3_NoLookAhead == IBNoLookAhead /\ LibNoLookAhead /\ TrNoLookAhead

\* a replay of lib/strategy.py has just entered a position on a bar that is
\* not the last one of the series
C3_Witness ==
    /\ lb_pc = "loop"
    /\ lb_idx < LibNumCandles(lb_full_mes, lb_full_mym)
    /\ lb_decisions # << >>
    /\ lb_decisions[Len(lb_decisions)].decision = "LONG"
    /\ lb_open_trade # << >>

\* C5 as stated: when a backtest has returned, it has recorded exactly one
\* row for every bar of the series, in bar order, the first bars included.
C5_OneRowPerBar ==
    /\ ib_pc = "returned" =>
          /\ Len(ib_decisions) = Len(ib_full)
          /\ \A k \in 1..Len(ib_decisions) : ib_decisions[k].date = ib_full[k].day
    /\ lb_pc = "returned" =>
          /\ Len(lb_decisions) = Len(lb_full_mes)
          /\ \A k \in 1..Len(lb_decisions) : lb_decisions[k].date = lb_full_mes[k].day
    /\ tr_pc = "returned" =>
          /\ Len(tr_backtest) = Len(tr_data)
          /\ \A k \in 1..Len(tr_backtest) : tr_backtest[k].date = tr_data[k].day

\* the number of rows recorded when the loop has dealt with the bars before
\* index idx and records from index first on
RowsFrom(first, idx) == IF idx > first THEN idx - first ELSE 0

\* C5, amended: each backtest records exactly one row, in bar order, for
\* every bar its loop has dealt with from its first decided bar on, whether
\* or not anything was decided or filled: lib/strategy.py from bar 0 up to
\* the shorter of the MES and MYM series, ichimoku_base.py from bar 5,
\* Trader.run_backtest from bar 26; the bars before get no row.
C5_OneRowPerDecidedBar ==
    /\ ib_pc \in {"loop", "returned"} =>
          /\ Len(ib_decisions) = RowsFrom(IBWarmup, ib_idx)
          /\ \A k \in 1..Len(ib_decisions) :
                ib_decisions[k].date = ib_full[IBWarmup + k].day
    /\ lb_pc \in {"loop", "returned"} =>
          /\ Len(lb_decisions) = lb_idx
          /\ \A k \in 1..Len(lb_decisions) : lb_decisions[k].date = lb_full_mes[k].day
          /\ lb_pc = "returned" =>
                lb_idx = Min2(Len(lb_full_mes), Len(lb_full_mym))
    /\ tr_pc \in {"loop", "returned"} =>
          /\ Len(tr_backtest) = RowsFrom(TrMinPeriods, tr_i)
          /\ \A k \in 1..Len(tr_backtest) :
                tr_backtest[k].date = tr_data[TrMinPeriods + k].day

\* a replay of ichimoku_base.py has returned a row for every bar but the
\* first five, rows with the decision STAY among them
C5_Witness ==
    /\ ib_pc = "returned"
    /\ Len(ib_decisions) = Len(ib_full) - IBWarmup
    /\ HasDecision(ib_decisions, <<"STAY">>)
    /\ HasDecision(ib_decisions, <<"LONG">>)

\* the row run_backtest has just appended
TrLastRow(backtest) == backtest[Len(backtest)]

\* the reason of the exit written to a row: the last part of its decision
TrExitReason(row) == row.decision[Len(row.decision)]

\* the replay step has recorded an exit on a position that was open
TrExitStep ==
    /\ tr_pc = "loop"
    /\ tr_loc.position # "None"
    /\ Len(tr_backtest') = Len(tr_backtest) + 1
    /\ TrLastRow(tr_backtest').exit_price # NoneVal

\* C21 as stated: the P/L written to the row of an exit is (exit_price -
\* entry_price) * sign * quantity closed; the quantity closed is the TP1 or
\* TP2 quantity for a take-profit and the whole quantity open before the
\* exit for a stop or a strategy EXIT.
C21_RealizedPnl ==
    [][ TrExitStep =>
          LET row    == TrLastRow(tr_backtest')
              sign   == IF tr_loc.position = "LONG" THEN 1 ELSE 0 - 1
              closed == IF TrExitReason(row) = "TP1" THEN tr_loc.tp1_qty
                        ELSE IF TrExitReason(row) = "TP2" THEN tr_loc.tp2_qty
                        ELSE tr_loc.quantity
          IN  row.pnl = (row.exit_price - tr_loc.entry_price) * sign * closed ]_vars

\* the replay step deals with a bar whose close is at or beyond the stop of
\* the open position
TrStopStep ==
    /\ tr_pc = "loop"
    /\ tr_pc' = "loop"
    /\ Len(tr_backtest') = Len(tr_backtest) + 1
    /\ \/ tr_loc.position = "LONG" /\ tr_data[tr_i + 1].close <= tr_loc.sl_price
       \/ tr_loc.position = "SHORT" /\ tr_data[tr_i + 1].close >= tr_loc.sl_price

\* C22 as stated: on a bar where the stop condition of the open position
\* holds, the exit is recorded with reason SL and closes the whole remaining
\* quantity, whatever else is triggered on the bar.
C22_StopCheckedFirst ==
    [][ TrStopStep =>
          /\ TrLastRow(tr_backtest').exit_price = tr_data[tr_i + 1].close
          /\ TrExitReason(TrLastRow(tr_backtest')) = "SL"
          /\ TrLastRow(tr_backtest').pnl =
                (tr_data[tr_i + 1].close - tr_loc.entry_price)
                  * (IF tr_loc.position = "LONG" THEN 1 ELSE 0 - 1) * tr_loc.quantity ]_vars

\* C27 as stated: end of data.  When backtest() returns, the lots still open
\* after the last bar stay open: the closed trades are those closed during
\* the replay, and none of them has the exit reason END_OF_DATA.
C27_OpenLotsStayOpen ==
    [][ /\ (ib_pc = "loop" /\ ib_pc' = "returned") =>
              /\ ib_completed' = ib_completed
              /\ \A i \in 1..Len(ib_completed') :
                     ib_completed'[i].exit_reason # "END_OF_DATA"
        /\ (lb_pc = "loop" /\ lb_pc' = "returned") =>
              /\ lb_trades' = lb_trades
              /\ lb_open_trade' = lb_open_trade
              /\ \A i \in 1..Len(lb_trades') :
                     lb_trades'[i].exit_reason # "END_OF_DATA" ]_vars

\* run_backtest() ends: it returns, or an exception leaves the loop
TrEndStep == tr_pc \in {"idle", "loop"} /\ tr_pc' \in {"returned", "raised"}

\* C31 as stated: run_backtest leaves the strategy re-callable.  When it
\* returns, and when strategy.run() or the order creation raises during the
\* replay, every contract's data is the history it held before the call.
C31_DataRestored ==
    [][ TrEndStep => (tr_p'.mes = tr_p.mes /\ tr_p'.mym = tr_p.mym) ]_vars

\* a replayed bar on which run() was called with both contracts loaded
TrDecidedStep ==
    /\ tr_pc = "loop" /\ tr_pc' = "loop" /\ tr_i' = tr_i + 1
    /\ tr_p.mym # << >>

\* C35 as stated: each contract is replayed on its own history.  When bar i
\* is decided, the PSAR series of the confirmation instrument is that of the
\* confirmation instrument's bars 0..i, and the PSAR series of the primary
\* is that of the primary's bars 0..i.
C35_OwnHistory ==
    [][ TrDecidedStep =>
          /\ tr_p'.psar_mes = CsCalculateParabolicSar(TrSubset(tr_p.mes, tr_i))
          /\ tr_p'.psar_mym = CsCalculateParabolicSar(TrSubset(tr_p.mym, tr_i)) ]_vars

\* the replay is between two bars, or has returned
TrBarEnd == engine = "trader" /\ tr_pc \in {"loop", "returned"} /\ tr_i > TrMinPeriods

\* the locals at the end of a bar: the legs add up, and a flat replay holds
\* nothing
TrLegsAddUp(loc) ==
    /\ loc.position # "None" =>
          /\ loc.quantity = loc.tp1_qty + loc.tp2_qty
          /\ loc.tp1_qty >= 0 /\ loc.tp2_qty >= 0
          /\ loc.tp2_qty = 0 => loc.tp1_qty = 0
    /\ loc.position = "None" =>
          loc.quantity = 0 /\ loc.tp1_qty = 0 /\ loc.tp2_qty = 0

\* the replay step has recorded the fill of a TP2 leg
TrTp2Step ==
    /\ tr_pc = "loop"
    /\ Len(tr_backtest') = Len(tr_backtest) + 1
    /\ TrExitReason(TrLastRow(tr_backtest')) = "TP2"

\* the rows before the current bar hold the fill of TP1 of the open position:
\* a TP1 row with no entry on any later row
TrTp1Filled(backtest) ==
    \E k \in 1..Len(backtest) :
        /\ TrExitReason(backtest[k]) = "TP1"
        /\ backtest[k].entry_price = NoneVal
        /\ \A j \in (k + 1)..Len(backtest) : backtest[j].entry_price = NoneVal

\* C36 as stated: bookkeeping of the take-profit legs.  At the end of every
\* bar the remaining quantity of an open position is tp1_qty + tp2_qty, a
\* flat replay has quantity, tp1_qty and tp2_qty 0, and a TP2 leg is filled
\* only after the TP1 leg of the same position was filled.
C36_LegsAddUp ==
    [][ /\ (tr_pc = "loop" /\ tr_i' = tr_i + 1) => TrLegsAddUp(tr_loc')
        /\ TrTp2Step => (tr_loc.tp1_qty = 0 /\ TrTp1Filled(tr_backtest)) ]_vars

\* a TP2 leg was filled during the replay, after the TP1 leg
C36_Tp2Filled ==
    /\ TrBarEnd
    /\ \E k \in 1..Len(tr_backtest) : TrExitReason(tr_backtest[k]) = "TP2"
    /\ \E k \in 1..Len(tr_backtest) : TrExitReason(tr_backtest[k]) = "TP1"

\* ------------------------------------------------------------------------
\* Properties of the backtests on malformed input
\* ------------------------------------------------------------------------
\* the timestamps of the series are strictly increasing
StrictlyIncreasing(s) == \A i \in 1..(Len(s) - 1) : s[i].day < s[i + 1].day

\* C11 as stated: data integrity.  A backtest over a series whose
\* timestamps are not strictly increasing aborts: it never returns and
\* records no row and no trade.
C11_DataIntegrity ==
    /\ ~StrictlyIncreasing(ib_full) =>
          /\ ib_pc # "returned"
          /\ ib_decisions = << >>
          /\ ib_completed = << >>
    /\ ~StrictlyIncreasing(lb_full_mes) =>
          /\ lb_pc # "returned"
          /\ lb_decisions = << >>
          /\ lb_trades = << >>

\* ------------------------------------------------------------------------
\* Properties of run()
\* ------------------------------------------------------------------------
\* C6 as stated: short history.  On a history of fewer than 21 bars run()
\* returns STAY and leaves the strategy state as it was.
C6_ShortHistoryStay ==
    /\ (rn_pc = "ran" /\ Len(rn_data) < 21) =>
          (rn_action = <<"STAY">> /\ rn_st = rn_pre)
    /\ (lr_pc = "ran" /\ Len(lr_pre.mes) < 21) =>
          (lr_action = "STAY" /\ lr_p = lr_pre)

\* C6: short history.  run() of ichimoku_base.py on a history of fewer than
\* 5 bars, and run() of lib/strategy.py on an MES or MYM history of fewer
\* than 21 bars, returns STAY without raising and leaves the strategy state
\* as it was.
C6_ShortHistoryStayPerStrategy ==
    /\ (rn_pc = "ran" /\ Len(rn_data) < 5) =>
          (rn_action = <<"STAY">> /\ rn_st = rn_pre)
    /\ (lr_pc = "ran" /\ (Len(lr_pre.mes) < 21 \/ Len(lr_pre.mym) < 21)) =>
          (lr_action = "STAY" /\ lr_p = lr_pre)

\* the second run() of an ichimoku_base.py strategy, on four bars, with a
\* position held and a trend state left by the first run
C6_Witness ==
    /\ rn_pc = "ran"
    /\ rn_runs = 2
    /\ Len(rn_data) = 4
    /\ rn_positions # << >>
    /\ rn_pre.trend_direction # "None"
    /\ rn_pre.tp1_level # NoneVal
    /\ rn_action = <<"STAY">>
    /\ rn_st = rn_pre

\* run() of lib/strategy.py on 20 bars of MES, with a position held
C6_WitnessLib ==
    /\ lr_pc = "ran"
    /\ Len(lr_pre.mes) = 20
    /\ lr_pre.positions # << >>
    /\ lr_action = "STAY"
    /\ lr_p = lr_pre

\* the latest bar of the history is a Friday that follows the Thursday of
\* the same ISO week
FridayAfterThursday(data) ==
    /\ Len(data) >= 2
    /\ Weekday(data[Len(data)].day) = 4
    /\ Weekday(data[Len(data) - 1].day) = 3
    /\ IsoWeek(data[Len(data)].day) = IsoWeek(data[Len(data) - 1].day)

\* C9 as stated: weekly reversal exit.  When run() of lib/strategy.py is
\* called with a Long position held, on a history whose latest bar is a
\* Friday with close < open that follows the Thursday of the same ISO week,
\* and the PSAR stop does not fire on that bar, it returns EXIT.
C9_WeeklyReversalExit ==
    ( /\ lr_pc = "ran"
      /\ lr_action # "TypeError"
      /\ Len(lr_pre.mes) >= LibMinLenRequired
      /\ Len(lr_pre.mym) >= LibMinLenRequired
      /\ FridayAfterThursday(lr_pre.mes)
      /\ lr_pre.mes[Len(lr_pre.mes)].close < lr_pre.mes[Len(lr_pre.mes)].open
      /\ lr_pre.positions # << >>
      /\ \A k \in 1..Len(lr_pre.positions) : lr_pre.positions[k] > 0
      /\ lr_p.psar_mes[Len(lr_p.psar_mes)] < lr_pre.mes[Len(lr_pre.mes)].close )
    => lr_action = "EXIT"


\* C13 as stated: run() returns LONG or SHORT only when no position is
\* open, in each of the three strategy classes.
C13_EntryOnlyWhenFlat ==
    /\ (rn_pc = "ran" /\ HasOpenPosition(rn_positions)) =>
          rn_action \notin {<<"LONG">>, <<"SHORT">>}
    /\ (lr_pc = "ran" /\ HasOpenPosition(lr_pre.positions)) =>
          lr_action \notin {"LONG", "SHORT"}
    /\ (cr_pc = "ran" /\ HasOpenPosition(cr_pre.positions)) =>
          cr_action \notin {"LONG", "SHORT"}

\* the close of the latest bar has crossed the PSAR value sar against the
\* position of the signed size q
CrossedAgainst(q, close, sar) == IF q > 0 THEN close <= sar ELSE close >= sar

\* C14 as stated: stop-out has first priority.  Whenever run() is called
\* with a position open and the close of the latest bar has crossed the
\* current PSAR against it, run() returns EXIT (ichimoku_base.py and
\* lib/strategy.py).
C14_StopOutFirst ==
    /\ ( /\ rn_pc = "ran" /\ Len(rn_data) >= IBMinBars
         /\ HasOpenPosition(rn_positions)
         /\ CrossedAgainst(rn_positions[1], rn_data[Len(rn_data)].close,
                           IBCalculatePsar(rn_data)[Len(rn_data)]) )
          => rn_action = <<"EXIT">>
    /\ ( /\ lr_pc = "ran" /\ lr_p.psar_set
         /\ HasOpenPosition(lr_pre.positions)
         /\ CrossedAgainst(lr_pre.positions[1], lr_p.mes[Len(lr_p.mes)].close,
                           lr_p.psar_mes[Len(lr_p.psar_mes)]) )
          => lr_action = "EXIT"

\* the latest bar of MES is a fresh PSAR flip: the PSAR is below (up) or
\* above (down) the close and was not so on the bar before
FreshFlipUp(p) ==
    LET n == Len(p.mes)
    IN  /\ p.psar_mes[n] < p.mes[n].close
        /\ ~(p.psar_mes[n - 1] < p.mes[n - 1].close)

FreshFlipDown(p) ==
    LET n == Len(p.mes)
    IN  /\ p.psar_mes[n] > p.mes[n].close
        /\ ~(p.psar_mes[n - 1] > p.mes[n - 1].close)

\* the PSAR of MYM is below / above its latest close
MymTrendUp(p) == p.psar_mym[Len(p.mym)] < p.mym[Len(p.mym)].close

MymTrendDown(p) == p.psar_mym[Len(p.mym)] > p.mym[Len(p.mym)].close

\* run() of lib/strategy.py has returned after computing its indicators,
\* called with no position open
RanFlat == lr_pc = "ran" /\ lr_p.psar_set /\ ~HasOpenPosition(lr_pre.positions)

\* C15 as stated: initial entry fires whenever its rule holds.  With no
\* position open, a fresh bullish flip of MES and the PSAR trend of MYM
\* agreeing, run() returns LONG with quantity 12; mirrored for SHORT with
\* kijun >= tenkan; nothing else is required.
C15_InitialEntryFires ==
    RanFlat =>
        /\ (FreshFlipUp(lr_p) /\ MymTrendUp(lr_p)) =>
              (lr_action = "LONG" /\ lr_p.number_of_contracts = 12)
        /\ (FreshFlipDown(lr_p) /\ MymTrendDown(lr_p) /\ lr_p.kijun >= lr_p.tenkan) =>
              (lr_action = "SHORT" /\ lr_p.number_of_contracts = 12)

\* C15, amended: the entry also needs the latest MES bar to close in its
\* direction, above its open for LONG and below it for SHORT.
C15_InitialEntryFiresOnDirectedBar ==
    RanFlat =>
        LET last == lr_p.mes[Len(lr_p.mes)]
        IN  /\ (FreshFlipUp(lr_p) /\ MymTrendUp(lr_p) /\ last.close > last.open) =>
                  (lr_action = "LONG" /\ lr_p.number_of_contracts = 12)
            /\ ( /\ FreshFlipDown(lr_p) /\ MymTrendDown(lr_p)
                 /\ lr_p.kijun >= lr_p.tenkan /\ last.close < last.open ) =>
                  (lr_action = "SHORT" /\ lr_p.number_of_contracts = 12)

\* run() has returned LONG with 12 contracts on a fresh bullish flip
C15_Witness ==
    /\ RanFlat
    /\ FreshFlipUp(lr_p) /\ MymTrendUp(lr_p)
    /\ lr_p.mes[Len(lr_p.mes)].close > lr_p.mes[Len(lr_p.mes)].open
    /\ lr_action = "LONG" /\ lr_p.number_of_contracts = 12

\* bars_since_flip_mes of run(), recomputed from the stored PSAR of MES
BarsSinceFlip(p) ==
    LET up   == LibFindRecentTrendChange(p.psar_mes, p.mes, 4)
        down == LibFindRecentDowntrendChange(p.psar_mes, p.mes, 4)
    IN  IF up.changed THEN up.candles ELSE IF down.changed THEN down.candles ELSE 999

\* run() has returned a re-entry: an entry on a bar that is not a fresh flip
LongReentry == RanFlat /\ lr_action = "LONG" /\ ~FreshFlipUp(lr_p)

ShortReentry == RanFlat /\ lr_action = "SHORT" /\ ~FreshFlipDown(lr_p)

\* C19 as stated: a re-entry is sized 12 when the extreme since the flip
\* (highest high for Long, lowest low for Short) is short of the 38.2% level
\* first_psar +/- 0.382 * jump, and 6 otherwise.
C19_ReentrySizing ==
    LET first   == LibGetTrendChangePsars(lr_p.psar_mes, lr_p.mes).first
        since   == LibLastBars(lr_p.mes, BarsSinceFlip(lr_p))
        level_l == first + Mul(lr_p.psar_difference, 382)
        level_s == first - Mul(lr_p.psar_difference, 382)
    IN  /\ LongReentry =>
              lr_p.number_of_contracts = (IF LibMaxHigh(since) < level_l THEN 12 ELSE 6)
        /\ ShortReentry =>
              lr_p.number_of_contracts = (IF LibMinLow(since) > level_s THEN 12 ELSE 6)

\* the bars (1-based, from 2 on) whose PSAR sign differs from the bar before
LibFlips(psar, data) ==
    { j \in 2..Len(psar) :
        LibIsPsarPositive(psar[j], data[j]) # LibIsPsarPositive(psar[j - 1], data[j - 1]) }

\* the most recent of them
LibLatestFlip(psar, data) ==
    CHOOSE f \in LibFlips(psar, data) : \A j \in LibFlips(psar, data) : j <= f

\* run() of lib/strategy.py has returned with its indicators computed, on
\* a history whose PSAR has changed sign
RanWithFlip ==
    /\ lr_pc = "ran"
    /\ lr_p.psar_set
    /\ LibFlips(lr_p.psar_mes, lr_p.mes) # {}

\* C24 as stated: the jump run() uses is |psar[f-1] - psar[f]| and
\* first_psar is psar[f], for the most recent PSAR sign flip f, whichever
\* its direction.
C24_JumpOfLatestFlip ==
    RanWithFlip =>
        LET f == LibLatestFlip(lr_p.psar_mes, lr_p.mes)
        IN  /\ lr_p.psar_difference = Abs(lr_p.psar_mes[f - 1] - lr_p.psar_mes[f])
            /\ LibGetTrendChangePsars(lr_p.psar_mes, lr_p.mes).first = lr_p.psar_mes[f]

\* C25 as stated: whenever the most recent PSAR sign flip of MES lies
\* within the last 4 bars, bars_since_flip_mes is the number of bars since
\* it, 1 on the flip bar itself; of two flips within the last 4 bars the
\* later one counts.
C25_BarsSinceLatestFlip ==
    RanWithFlip =>
        LET since == Len(lr_p.mes) - LibLatestFlip(lr_p.psar_mes, lr_p.mes) + 1
        IN  since <= 4 => BarsSinceFlip(lr_p) = since

\* ------------------------------------------------------------------------
\* Properties of the live loop of Trader.run_strategy
\* ------------------------------------------------------------------------
\* strategy.run() is invoked again
RerunStep == cr_pc = "refreshed" /\ cr_pc' = "ran" /\ cr_runs >= 1

\* C28 as stated: live scheduler cadence.  Between two consecutive
\* invocations of strategy.run() the loop has waited SLEEP_TIME, whatever
\* the decision of the earlier invocation was.
C28_SleepBetweenRuns == [][ RerunStep => cr_slept ]_vars

\* the pass builds the order plan for its decision
OrderStep == cr_pc = "ran" /\ cr_pc' = "idle" /\ cr_action # "EXIT"

\* C29 as stated: order-plan construction has no effect on strategy state.
\* create_order leaves params.positions alone, and whatever the broker
\* returns at the next pass, the next run() decides as it would have
\* decided had create_order not been called.
C29_BuilderLeavesDecisions ==
    [][ OrderStep =>
          /\ CsCreateOrder(cr_p, cr_action).p.positions = cr_p.positions
          /\ \A k \in LvLengths(cr_market, cr_p) : \A j \in {k, Max2(k - 1, 0)} :
             \A pos \in LrPositions : \A ex \in LrExecuted :
                CsRun(CrPopulated(cr_p', cr_market, k, j, pos, ex)).action
                  = CsRun(CrPopulated(cr_p, cr_market, k, j, pos, ex)).action ]_vars

\* run() of ichimoku_base.py's IchimokuBase is called
IBRunStep == rn_pc = "refreshed" /\ rn_pc' = "ran"

\* C30 as stated: trend state advances once per bar.  A second run() on the
\* same bars with the same positions leaves candle_count, tp1_hit, the TP
\* levels and the extremes as the first call left them and returns the
\* action the first call returned.
C30_SecondRunSameBar ==
    [][ IBRunStep =>
          LET again == IBRun(rn_st', rn_data, rn_positions)
          IN  /\ again.st.candle_count = rn_st'.candle_count
              /\ again.st.tp1_hit = rn_st'.tp1_hit
              /\ again.st.tp1_level = rn_st'.tp1_level
              /\ again.st.tp2_level = rn_st'.tp2_level
              /\ again.st.max_high_since_start = rn_st'.max_high_since_start
              /\ again.st.min_low_since_start = rn_st'.min_low_since_start
              /\ again.action = rn_action' ]_vars
\* ------------------------------------------------------------------------
\* Properties of the order plans
\* ------------------------------------------------------------------------
\* the method returned a plan [parent, stop, tp1, tp2]
PlanReturned == od_pc = "built" /\ Len(od_plan) = 4

C8_ZeroJumpFallback ==
    (PlanReturned /\ od_builder \in {"lib", "cs"}) =>
        LET entry == od_plan[1].price
            tp1   == od_plan[3].price
            tp2   == od_plan[4].price
        IN  /\ (od_action = "LONG" /\ OdJump = 0) =>
                  (tp1 = Mul(entry, 1002) /\ tp2 = Mul(entry, 1005))
            /\ (od_action = "SHORT" /\ OdJump = 0) =>
                  (tp1 = Mul(entry, 998) /\ tp2 = Mul(entry, 995))
            /\ (od_action = "LONG" /\ OdJump > 0) =>
                  (tp1 = entry + Mul(OdJump, 382) /\ tp2 = entry + Mul(OdJump, 618))
            /\ (od_action = "SHORT" /\ OdJump > 0) =>
                  (tp1 = entry - Mul(OdJump, 382) /\ tp2 = entry - Mul(OdJump, 618))

\* a Long plan of lib/strategy.py's IchimokuBase for 12 contracts at 17.135
\* with a jump of 0: take profits at 17.169 and 17.220
C8_Witness ==
    /\ PlanReturned
    /\ od_builder = "lib"
    /\ od_action = "LONG"
    /\ od_difference = 0
    /\ od_qty = 12
    /\ od_plan[1].price = 17 * Scale + 135
    /\ od_plan[3].price = 17 * Scale + 169
    /\ od_plan[4].price = 17 * Scale + 220


\* C26 as stated: quantity split table.  A plan of IchimokuBase for an entry
\* of 12, 6 or 4 contracts has TP1 and TP2 legs of 6/6, 3/3 and 2/2, for a
\* Short entry exactly as for a Long entry.
C26_QuantitySplit ==
    (PlanReturned /\ od_builder \in {"lib", "cs"} /\ od_qty \in {12, 6, 4}) =>
        /\ od_plan[3].totalQuantity = od_qty \div 2
        /\ od_plan[4].totalQuantity = od_qty \div 2
\* ------------------------------------------------------------------------
\* Properties of the PSAR series
\* ------------------------------------------------------------------------
\* C7 as stated: PSAR invariant.  At every bar that is not a flip bar the
\* PSAR value is below the close while the computation tracks a bullish
\* leg and above the close while it tracks a bearish leg.
C7_PsarSide ==
    /\ \A i \in 1..Len(ps_ib) :
          ~ps_ib[i].reversed =>
              IF ps_ib[i].up THEN ps_ib[i].sar < ps_bars[i].close
                             ELSE ps_ib[i].sar > ps_bars[i].close
    /\ \A i \in 1..Len(ps_lib) :
          ~ps_lib[i].flipped =>
              IF ps_lib[i].bullish THEN ps_lib[i].sar < ps_bars[i].close
                                   ELSE ps_lib[i].sar > ps_bars[i].close


\* C12 as stated: given fewer than 2 bars (none or one), each PSAR
\* computation fails with InsufficientData instead of returning a series.
C12_InsufficientData ==
    Len(ps_bars) < 2 =>
        /\ ps_ib_out \in {"none", "InsufficientData"}
        /\ ps_lib_out \in {"none", "InsufficientData"}

\* ------------------------------------------------------------------------
\* Properties of the connection manager
\* ------------------------------------------------------------------------
\* thread t is past the budget check of reconnect() and has not returned
Reconnecting(t) == cn_pc[t] \in {"disconnect", "call", "called", "reset"}

\* C32 as stated: reconnect budget.  Since the last established connection
\* reconnect() has entered connect() at most MAX_RECONNECT_ATTEMPTS times,
\* and a reconnect() that finds the counter above the maximum returns
\* without connecting, whichever threads call it.
C32_ReconnectBudget ==
    [][ /\ cn_connects' <= MAX_RECONNECT_ATTEMPTS
        /\ \A t \in CnThreads :
              (cn_pc[t] = "check" /\ cn_pc'[t] # "check"
               /\ cn_attempts > MAX_RECONNECT_ATTEMPTS) => cn_pc'[t] = "idle" ]_vars

\* C33 as stated: connect() always terminates.  A thread that has entered
\* connect() leaves it, with True (on to the reset of reconnect()) or with
\* False, however the broker call behaves.
C33_ConnectTerminates ==
    \A t \in CnThreads : (cn_pc[t] = "call") ~> (cn_pc[t] \in {"idle", "reset"})

\* "self.reconnect_attempts += 1" stores its sum
StoreStep(t) == cn_pc[t] = "store" /\ cn_pc'[t] = "check"

\* C34 as stated: reconnection is serialized.  At most one thread is in a
\* disconnect/connect sequence at any time, and every increment of
\* reconnect_attempts raises the counter by one.
C34_ReconnectSerialized ==
    [][ /\ Cardinality({t \in CnThreads : Reconnecting(t)'}) <= 1
        /\ \A t \in CnThreads : StoreStep(t) => cn_attempts' = cn_attempts + 1 ]_vars
\* ------------------------------------------------------------------------
\* Claims about TTSStrategy
\* ------------------------------------------------------------------------
\* a replay step that evaluates a candle
TtsBarStep == tt_pc = "loop" /\ tt_idx' = tt_idx + 1

\* C39 as stated: cross detection over the stored series.  On every
\* evaluated candle the stored TTS history grows by one value, and on the
\* candles after the first evaluated one LONG is signalled only when the TTS
\* of the preceding candle is <= 0 and that of the current one > 0, SHORT
\* only when the TTS goes from >= 0 to < 0.
C39_TtsCross ==
    [][ TtsBarStep =>
          /\ Len(tt_tts') = Len(tt_tts) + 1
          /\ tt_idx > TtsWindow =>
                LET tts      == TtsValue(tt_data')
                    tts_prev == TtsValue(Prefix(tt_full, tt_idx))
                    decision == tt_decisions'[Len(tt_decisions')]
                IN  /\ decision = "LONG" => (tts_prev <= 0 /\ tts > 0)
                    /\ decision = "SHORT" => (tts_prev >= 0 /\ tts < 0) ]_vars
====
